---------------------------- MODULE Spec2Model ----------------------------
(***************************************************************************)
(* LogSV central server (src/unnamed/part_001, the file src/server/index.js *)
(* of the repository): the MemoryStore and the LogScopeServer ingestion     *)
(* hub, as a state machine.                                                 *)
(*                                                                          *)
(* Strings.  TLC has no character access to strings, so a message is a      *)
(* sequence of lexical tokens (words, integers, a timestamp, blanks), and   *)
(* the string functions of the code are modelled token by token: Lower is   *)
(* toLowerCase, SubWords(t) is the set of keywords k with t.includes(k),    *)
(* the three regular expressions of normalizeMessage act on whole tokens.   *)
(*                                                                          *)
(* Time.  Date.now() is the variable `now` (milliseconds); ISO timestamps   *)
(* are the millisecond values they denote.                                  *)
(***************************************************************************)
EXTENDS Integers, Sequences, FiniteSets, TLC

VARIABLES
    errors,      \* MemoryStore.errors: most-recent-first list of StoredError
    patterns,    \* MemoryStore.patterns: Map, kept in insertion order
    insights,    \* MemoryStore.insights
    maxErrors,   \* MemoryStore.maxErrors
    now,         \* Date.now()
    agents,      \* LogScopeServer.agents: Map serverId -> AgentRecord, insertion order
    links,       \* the agent transports (ws) and their state
    clients,     \* LogScopeServer.clients: Set of dashboard sockets, insertion order
    readyState,  \* readyState of each dashboard socket
    call,        \* the handler that ran last, with its argument
    returned,    \* what the last addError call returned
    outbox,      \* the frames the last handler sent to dashboard sockets
    response,    \* the response of the last REST request
    steps,       \* the number of events handled so far
    occurrences, \* history: per stored fingerprint, the addError calls since its
                 \* record was created
    pc,          \* where the handler that is running stands; "idle" between events
    pending,     \* the error event that is being handled, or was handled last
    tailer,      \* FileTailer: position, running, the retry timer (watchTimeout),
                 \* and whether its listener is registered with fs.watchFile
    file,        \* the tailed file: whether it exists, and its bytes
    stat,        \* the stat watcher of fs.watchFile: the size it saw last (prev)
                 \* and a change it has seen and not yet reported (curr)
    delivered,   \* the lines handed to the tailer's callback
    written,     \* history: what was appended to the file since the tailer
                 \* started, and whether the file was truncated or replaced
    logScopeAgent, \* LogScopeAgent: config, running, reconnectAttempts, stats, ws,
                 \* the reconnect timers that are set, and whether start() is
                 \* still waiting for connect()
    sockets,     \* the WebSocket objects the agent has created, in order: the
                 \* readyState of each and the frames sent on it
    parsed       \* the line handled last and what parse made of it

storeVars == <<errors, patterns, insights, maxErrors>>
hubVars == <<agents, links, clients, readyState>>
stepVars == <<pc, pending>>
tailVars == <<tailer, file, stat, delivered, written>>
agentVars == <<logScopeAgent, sockets, parsed>>
outVars == <<call, returned, outbox, response>>
vars == <<errors, patterns, insights, maxErrors, now, agents, links, clients,
          readyState, call, returned, outbox, response, steps, occurrences,
          pc, pending, tailer, file, stat, delivered, written, logScopeAgent, sockets,
          parsed>>

-----------------------------------------------------------------------------
(* Bounds of the model *)

\* configured capacity of the store in the small-store specification
MaxErrors == 2
\* number of one-hour clock steps
MaxTick == 1
\* number of addError calls in the store specification
MaxCalls == 3
\* number of events the server handles in the server specification
MaxEvents == 5
\* number of distinct sources in the burst specification
MaxBurst == 11
\* number of repeated errors in the burst specification
MaxRepeats == 1
\* number of errors each of the two agents sends in the pair specification
MaxPairErrors == 6
\* number of calls of the agent and of the writers in the tailer specification
MaxTailSteps == 5
\* number of events of the agent (calls, socket events, timers, lines)
MaxAgentEvents == 7
\* largest number of errors stored before the first request in the REST
\* specification
MaxStored == 102

(* Program constants *)

DefaultMaxErrors == 1000
\* the delay of the tailer's retry timer, in milliseconds (line 1055)
RetryDelay == 5000
\* the defaults of the agent's configuration (lines 1083-1085)
DefaultStatsInterval == 10
DefaultReconnectDelay == 5000
DefaultMaxReconnectAttempts == -1
\* the cap of the reconnect delay, in milliseconds (line 1170)
MaxReconnectDelay == 60000
OneHour == 3600000
InsightLimit == 5
PatternMinCount == 5
PatternMinServers == 1
AnomalyMinRecent == 10
AnomalyMinTop == 3
DbErrorsMin == 3
PatternBaseConfidence == 60
PatternMaxConfidence == 95
AnomalyConfidence == 85
RecommendationConfidence == 78
EmptyQueryLimit == 50
SearchLimit == 100
DefaultLimit == 50

-----------------------------------------------------------------------------
(* Values *)

None == "none"          \* undefined / absent
NoTs == -1              \* an error frame without timestamp

ServerIds == {"s1", "s2"}
\* config.serverName of the agent with this serverId
serverNameOf(serverId) ==
    CASE serverId = "s1" -> "Web"
      [] serverId = "s2" -> "Data"
      [] OTHER -> None
LogFiles == {"/var/log/app.log", "/var/log/db.log"}

\* the messages agents send: token sequences
Messages ==
    { <<"Database", "timeout", "42">>,
      <<"database", "timeout", "500", " ">>,
      <<"login", "failed", "401">> }

\* the messages of the stores that are searched, in the order they are stored:
\* Database Connectivity / high, Database Connectivity / critical,
\* Authentication / low
SearchMessages ==
    << <<"Database", "timeout", "42">>,
       <<"FATAL", "database", "down">>,
       <<"login", "401">> >>

\* the messages of the two agents of the pair specification: one normalized
\* message, two categories (Authentication, API Issues)
PairMessages == { <<"status", "401">>, <<"status", "500">> }

AllMessages ==
    Messages \cup {SearchMessages[i] : i \in DOMAIN SearchMessages} \cup PairMessages

TimeStamps == {k * OneHour : k \in 0..MaxTick}

\* String.prototype.toLowerCase on a token
Lower(tok) ==
    CASE tok = "Database" -> "database"
      [] tok = "FATAL" -> "fatal"
      [] tok = "TIMESTAMP" -> "timestamp"
      [] tok = "NUMBER" -> "number"
      [] tok = "UUID" -> "uuid"
      [] tok = "ERROR:" -> "error:"
      [] tok = "FATAL:" -> "fatal:"
      [] tok = "CRITICAL:" -> "critical:"
      [] tok = "Authentication" -> "authentication"
      [] tok = "WARN" -> "warn"
      [] tok = "API" -> "api"
      [] tok = "File" -> "file"
      [] tok = "\"API timeout\"" -> "\"api timeout\""
      [] OTHER -> tok

\* the keywords k of the code with tok.includes(k), for a lower-case token
SubWords(tok) ==
    CASE tok = "database" -> {"database"}
      [] tok = "timeout" -> {"timeout"}
      [] tok = "login" -> {"login"}
      [] tok = "failed" -> {"fail", "failed"}
      [] tok = "failure" -> {"fail", "failure"}
      [] tok = "connection" -> {"connection"}
      [] tok = "refused" -> {"refused"}
      [] tok = "memory" -> {"memory"}
      [] tok = "slow" -> {"slow"}
      [] tok = "nginx" -> {"nginx"}
      [] tok = "warn" -> {"warn"}
      [] tok = "error:" -> {"error"}
      [] tok = "fatal:" -> {"fatal"}
      [] tok = "critical:" -> {"critical"}
      [] tok = "[error]" -> {"error"}
      [] tok = "[warn]" -> {"warn"}
      [] tok = "\"error\"" -> {"error"}
      [] tok = "\"api timeout\"" -> {"timeout"}
      [] tok = "\"user login ok\"" -> {"login"}
      [] tok = "fatal" -> {"fatal"}
      [] tok = "disk" -> {"disk"}
      [] tok = "401" -> {"401"}
      [] tok = "500" -> {"500"}
      [] tok = "critical" -> {"critical"}
      [] tok = "server" -> {"server"}
      [] tok = "new" -> {"new"}
      [] tok = "auth" -> {"auth"}
      [] tok = "authentication" -> {"auth"}
      [] OTHER -> {}

\* message.toLowerCase()
toLowerCase(message) == [i \in DOMAIN message |-> Lower(message[i])]

\* msg.includes(keyword), the keyword a sequence of words
includes(msg, keyword) ==
    \E i \in 1..Len(msg) :
        /\ i + Len(keyword) - 1 <= Len(msg)
        /\ \A j \in 1..Len(keyword) : keyword[j] \in SubWords(msg[i + j - 1])

\* tokens matched whole by /\d{4}-\d{2}-\d{2}[T\s]\d{2}:\d{2}:\d{2}(\.\d{3})?[Z]?/
IsTimestampTok(tok) == tok \in {"2025-08-01T10:30:15Z"}
\* tokens matched whole by /\b\d+\b/
IsNumberTok(tok) == tok \in {"42", "401", "500"}
\* tokens matched whole by the UUID expression (after the number replacement)
IsUuidTok(tok) == tok \in {"123e4567-e89b-12d3-a456-42661417400a"}

RECURSIVE trimLeft(_)
trimLeft(s) == IF s # <<>> /\ Head(s) = " " THEN trimLeft(Tail(s)) ELSE s

RECURSIVE trimRight(_)
trimRight(s) ==
    IF s # <<>> /\ s[Len(s)] = " " THEN trimRight(SubSeq(s, 1, Len(s) - 1)) ELSE s

\* String.prototype.trim
trim(s) == trimRight(trimLeft(s))

ReplaceTok(tok) ==
    IF IsTimestampTok(tok) THEN "TIMESTAMP"
    ELSE IF IsNumberTok(tok) THEN "NUMBER"
    ELSE IF IsUuidTok(tok) THEN "UUID"
    ELSE tok

normalizeMessage(message) ==
    trim([i \in DOMAIN message |-> Lower(ReplaceTok(message[i]))])

\* normalizeMessage on the messages of the model, computed once
normalized == [m \in AllMessages |-> normalizeMessage(m)]


-----------------------------------------------------------------------------
(* MemoryStore *)

\* the `categories` table of categorizeError, in its order; a keyword is a
\* sequence of words
Categories ==
    << [name |-> "Database Connectivity",
        keywords |-> {<<"connection">>, <<"timeout">>, <<"database">>, <<"db">>,
                      <<"mysql">>, <<"postgres">>, <<"mongo">>}],
       [name |-> "Authentication",
        keywords |-> {<<"auth">>, <<"login">>, <<"password">>, <<"token">>,
                      <<"permission">>, <<"unauthorized">>, <<"401">>, <<"403">>}],
       [name |-> "Network Issues",
        keywords |-> {<<"network">>, <<"dns">>, <<"host">>, <<"unreachable">>,
                      <<"connection", "refused">>, <<"timeout">>}],
       [name |-> "File System",
        keywords |-> {<<"file">>, <<"directory">>, <<"permission", "denied">>,
                      <<"disk">>, <<"space">>, <<"io", "error">>}],
       [name |-> "Memory Issues",
        keywords |-> {<<"memory">>, <<"oom">>, <<"heap">>, <<"stack", "overflow">>,
                      <<"out", "of", "memory">>}],
       [name |-> "Data Processing",
        keywords |-> {<<"json">>, <<"parse">>, <<"format">>, <<"invalid">>,
                      <<"malformed">>, <<"corrupt">>}],
       [name |-> "Resource Management",
        keywords |-> {<<"queue">>, <<"pool">>, <<"limit">>, <<"capacity">>,
                      <<"overflow">>, <<"resource">>}],
       [name |-> "Configuration",
        keywords |-> {<<"config">>, <<"setting">>, <<"parameter">>, <<"missing">>,
                      <<"invalid", "config">>}],
       [name |-> "API Issues",
        keywords |-> {<<"api">>, <<"endpoint">>, <<"route">>, <<"404">>, <<"500">>,
                      <<"service", "unavailable">>}],
       [name |-> "Security",
        keywords |-> {<<"security">>, <<"attack">>, <<"breach">>, <<"suspicious">>,
                      <<"blocked">>, <<"firewall">>}] >>

categorizeError(message) ==
    LET msg == toLowerCase(message)
        hits == {c \in DOMAIN Categories :
                    \E keyword \in Categories[c].keywords : includes(msg, keyword)}
    IN IF hits = {} THEN "General"
       ELSE Categories[CHOOSE c \in hits : \A d \in hits : c <= d].name

calculateSeverity(message) ==
    LET msg == toLowerCase(message)
        some(ws) == \E w \in ws : includes(msg, <<w>>)
    IN IF some({"fatal", "critical", "emergency", "panic", "severe"}) THEN "critical"
       ELSE IF some({"error", "fail", "exception", "timeout", "refused", "denied"})
            THEN "high"
       ELSE IF some({"warn", "warning", "deprecated", "retry"}) THEN "medium"
       ELSE "low"

\* categorizeError and calculateSeverity on the messages of the model, computed once
categoryOf == [m \in AllMessages |-> categorizeError(m)]
severityOf == [m \in AllMessages |-> calculateSeverity(m)]

\* crypto.randomBytes(8): a value no stored record holds (the least such one
\* stands for it)
generateId(errs) ==
    LET used == {errs[i].id : i \in DOMAIN errs}
    IN CHOOSE n \in 1..(Len(errs) + 1) : n \notin used /\ \A m \in 1..(n - 1) : m \in used

\* mutant: the messages are compared as received, not normalized
similarRaw(error, newError) ==
    /\ error.serverId = newError.serverId
    /\ error.logFile = newError.logFile
    /\ error.errorMessage = newError.errorMessage

\* the fingerprint comparison of findSimilarError
similar(error, newError) ==
    /\ error.serverId = newError.serverId
    /\ error.logFile = newError.logFile
    /\ normalized[error.errorMessage] = normalized[newError.errorMessage]

\* Array.prototype.find: the index of the first similar record, 0 for undefined
findSimilarError(errs, newError) ==
    LET hits == {i \in DOMAIN errs : similar(errs[i], newError)}
    IN IF hits = {} THEN 0 ELSE CHOOSE i \in hits : \A j \in hits : i <= j

\* mutant: the record itself is counted with the others
calculateTrendWithSelf(errs, error, clock) ==
    LET recentCount ==
            Cardinality({i \in DOMAIN errs :
                /\ normalized[errs[i].errorMessage] = normalized[error.errorMessage]
                /\ errs[i].lastSeen > clock - OneHour})
    IN IF recentCount = 0 THEN "new"
       ELSE IF recentCount > 5 THEN "increasing"
       ELSE IF recentCount < 2 THEN "decreasing"
       ELSE "stable"

\* calculateTrend(error) at the time clock (lines 112-127)
calculateTrend(errs, error, clock) ==
    LET oneHourAgo == clock - OneHour
        recentCount ==
            Cardinality({i \in DOMAIN errs :
                /\ errs[i].id # error.id
                /\ normalized[errs[i].errorMessage] = normalized[error.errorMessage]
                /\ errs[i].lastSeen > oneHourAgo})
    IN IF recentCount = 0 THEN "new"
       ELSE IF recentCount > 5 THEN "increasing"
       ELSE IF recentCount < 2 THEN "decreasing"
       ELSE "stable"

\* the Map update of updatePatterns (lines 130-137)
\* mutant: the entry of the pattern is started again for every new record
setPatternAgain(pats, error) ==
    LET pattern == normalized[error.errorMessage]
        other(p) == p.pattern # pattern
    IN Append(SelectSeq(pats, other),
              [pattern |-> pattern, count |-> 1, servers |-> {error.serverId},
               lastSeen |-> error.timestamp])

setPattern(pats, error) ==
    LET pattern == normalized[error.errorMessage]
        hits == {i \in DOMAIN pats : pats[i].pattern = pattern}
    IN IF hits = {}
       THEN Append(pats, [pattern |-> pattern, count |-> 1,
                          servers |-> {error.serverId}, lastSeen |-> error.timestamp])
       ELSE LET i == CHOOSE h \in hits : TRUE
            IN [pats EXCEPT ![i] = [pattern |-> pattern,
                                    count |-> @.count + 1,
                                    servers |-> @.servers \cup {error.serverId},
                                    lastSeen |-> error.timestamp]]

NoPattern == <<None>>

\* Math.round((top / total) * 100)
roundPercent(top, total) == (200 * top + total) \div (2 * total)

generateInsights(errs, pats, clock) ==
    LET oneHourAgo == clock - OneHour
        crossServer(data) ==
            data.count > PatternMinCount /\ Cardinality(data.servers) > PatternMinServers
        hot == SelectSeq(pats, crossServer)
        minOf(a, b) == IF a < b THEN a ELSE b
        patternInsights ==
            [i \in DOMAIN hot |->
                [type |-> "pattern",
                 title |-> "Cross-server error pattern detected",
                 detail |-> <<Cardinality(hot[i].servers)>>,
                 confidence |-> minOf(PatternMaxConfidence,
                                      PatternBaseConfidence + hot[i].count * 2),
                 pattern |-> hot[i].pattern]]
        isRecent(e) == e.lastSeen > oneHourAgo
        recentErrors == SelectSeq(errs, isRecent)
        cats == {recentErrors[i].category : i \in DOMAIN recentErrors}
        countOf(c) == Cardinality({i \in DOMAIN recentErrors : recentErrors[i].category = c})
        firstOf(c) == CHOOSE i \in DOMAIN recentErrors :
                          /\ recentErrors[i].category = c
                          /\ \A j \in 1..(i - 1) : recentErrors[j].category # c
        \* Object.entries(categories).sort(([,a],[,b]) => b - a)[0]: the sort is
        \* stable, so among the largest counts the category met first
        topCategory == CHOOSE c \in cats :
                          \A d \in cats :
                              \/ countOf(c) > countOf(d)
                              \/ countOf(c) = countOf(d) /\ firstOf(c) <= firstOf(d)
        anomalyInsights ==
            IF Len(recentErrors) > AnomalyMinRecent /\ countOf(topCategory) > AnomalyMinTop
            THEN << [type |-> "anomaly",
                     title |-> topCategory,
                     detail |-> <<countOf(topCategory),
                                  roundPercent(countOf(topCategory), Len(recentErrors))>>,
                     confidence |-> AnomalyConfidence,
                     pattern |-> NoPattern] >>
            ELSE << >>
        dbErrors == Cardinality({i \in DOMAIN errs :
                                    errs[i].category = "Database Connectivity"})
        recommendations ==
            IF dbErrors > DbErrorsMin
            THEN << [type |-> "recommendation",
                     title |-> "Database connection optimization needed",
                     detail |-> << >>,
                     confidence |-> RecommendationConfidence,
                     pattern |-> NoPattern] >>
            ELSE << >>
        all == patternInsights \o anomalyInsights \o recommendations
    IN SubSeq(all, 1, IF Len(all) < InsightLimit THEN Len(all) ELSE InsightLimit)

\* mutant: a merge moves the record to the head of the list
mergeToFront(errs, k, error, clock) ==
    LET bumped == [errs EXCEPT ![k].count = @ + 1, ![k].lastSeen = error.timestamp]
        merged == [bumped EXCEPT ![k].trend = calculateTrend(bumped, bumped[k], clock)]
        other(i) == IF i < k THEN merged[i] ELSE merged[i + 1]
    IN <<merged[k]>> \o [i \in 1..(Len(merged) - 1) |-> other(i)]

\* mutant: a merge takes the category of the incoming error
mergeCategory(errs, k, error, clock) ==
    LET bumped == [errs EXCEPT ![k].count = @ + 1, ![k].lastSeen = error.timestamp,
                               ![k].category = error.category]
    IN [bumped EXCEPT ![k].trend = calculateTrend(bumped, bumped[k], clock)]

\* lines 28-30: the merge into the stored record at index k
mergeExisting(errs, k, error, clock) ==
    LET bumped == [errs EXCEPT ![k].count = @ + 1, ![k].lastSeen = error.timestamp]
    IN [bumped EXCEPT ![k].trend = calculateTrend(bumped, bumped[k], clock)]

\* lines 33-36: the record a first occurrence creates
newRecord(error) ==
    [id |-> error.id, serverId |-> error.serverId, serverName |-> error.serverName,
     logFile |-> error.logFile,
     errorMessage |-> error.errorMessage, timestamp |-> error.timestamp,
     category |-> error.category, severity |-> error.severity,
     count |-> 1, firstSeen |-> error.timestamp, lastSeen |-> error.timestamp,
     trend |-> "new"]

\* mutant: the trim keeps the oldest records and drops the one just added
unshiftAndTrimHead(errs, record, cap) ==
    LET grown == <<record>> \o errs
    IN IF Len(grown) > cap THEN SubSeq(grown, 2, cap + 1) ELSE grown

\* lines 37-42: unshift, then trim to the capacity
unshiftAndTrim(errs, record, cap) ==
    LET grown == <<record>> \o errs
    IN IF Len(grown) > cap THEN SubSeq(grown, 1, cap) ELSE grown

\* addError on the store <<errs, pats, ins>>: the store it leaves and the
\* record it returns
addError(errs, pats, ins, cap, incoming, clock) ==
    LET error == [serverId |-> incoming.serverId,
                  serverName |-> incoming.serverName,
                  logFile |-> incoming.logFile,
                  errorMessage |-> incoming.errorMessage,
                  category |-> categoryOf[incoming.errorMessage],
                  severity |-> severityOf[incoming.errorMessage],
                  id |-> generateId(errs),
                  timestamp |-> IF incoming.timestamp = NoTs THEN clock
                                ELSE incoming.timestamp]
        k == findSimilarError(errs, error)
    IN IF k # 0
       THEN LET merged == mergeExisting(errs, k, error, clock)
            IN [errors |-> merged, patterns |-> pats, insights |-> ins,
                returned |-> merged[k]]
       ELSE LET record == newRecord(error)
                trimmed == unshiftAndTrim(errs, record, cap)
                updated == setPattern(pats, record)
            IN [errors |-> trimmed, patterns |-> updated,
                insights |-> generateInsights(trimmed, updated, clock),
                returned |-> record]

\* mutant: slice returns the whole array
sliceAll(s, n) == s

\* Array.prototype.slice(0, n), n >= 0
slice(s, n) == SubSeq(s, 1, IF Len(s) < n THEN Len(s) ELSE n)

\* a category name, lower case, as words
categoryWords(category) ==
    CASE category = "Database Connectivity" -> <<"database", "connectivity">>
      [] category = "Authentication" -> <<"authentication">>
      [] category = "General" -> <<"general">>
      [] OTHER -> <<category>>

\* serverId.includes(w): no serverId of the model is part of another word
idIncludes(serverId, w) == serverId = w

\* q.match(/server[- ]?(\w+)/): the word after the first "server", if any
serverMatch(q) ==
    LET at == {i \in DOMAIN q : q[i] = "server"}
        i == CHOOSE j \in at : \A k \in at : j <= k
    IN IF at = {} THEN << >>
       ELSE IF i < Len(q) THEN <<q[i + 1]>> ELSE << >>

\* the names of the filters search pushes for the lower-case query q, in the
\* order of lines 207-224
searchFilters(q) ==
    LET has(cue) == includes(q, <<cue>>)
        on(b, name) == IF b THEN <<name>> ELSE << >>
    IN on(has("critical") \/ has("urgent"), "critical")
       \o on(has("database") \/ has("db"), "database")
       \o on(has("timeout"), "timeout")
       \o on(has("new") \/ has("recent"), "new")
       \o on(has("server") /\ serverMatch(q) # << >>, "server")

\* TRUE when evaluating the filter on e throws: e.server is read after
\* e.serverId.includes(w) was false, and toLowerCase is called on it; a record
\* without a server field gives undefined
filterThrows(name, q, e) ==
    /\ name = "server"
    /\ ~idIncludes(e.serverId, serverMatch(q)[1])
    /\ "server" \notin DOMAIN e

\* the value of a filter on e, when it does not throw
filterHolds(name, q, e) ==
    CASE name = "critical" -> e.severity = "critical"
      [] name = "database" -> e.category = "Database Connectivity"
      [] name = "timeout" -> includes(toLowerCase(e.errorMessage), <<"timeout">>)
      [] name = "new" -> e.trend \in {"new", "increasing"}
      [] name = "server" -> idIncludes(e.serverId, serverMatch(q)[1])

RECURSIVE applyFilters(_, _, _)
\* lines 227-230: results = results.filter(filter), filter by filter; a filter
\* that throws ends the search
applyFilters(results, filters, q) ==
    IF filters = << >> THEN [fault |-> FALSE, results |-> results]
    ELSE LET keep(e) == filterHolds(Head(filters), q, e)
         IN IF \E i \in DOMAIN results : filterThrows(Head(filters), q, results[i])
            THEN [fault |-> TRUE, results |-> << >>]
            ELSE applyFilters(SelectSeq(results, keep), Tail(filters), q)

\* lines 234-238: the text search on e; the second operand is evaluated when
\* the first is false
textThrows(q, e) ==
    /\ ~includes(toLowerCase(e.errorMessage), q)
    /\ "server" \notin DOMAIN e

textHolds(q, e) ==
    \/ includes(toLowerCase(e.errorMessage), q)
    \/ includes(categoryWords(e.category), q)

\* search(query): fault is TRUE when the call throws, results is what it
\* returns otherwise
search(errs, query) ==
    IF query = << >> THEN [fault |-> FALSE, results |-> slice(errs, EmptyQueryLimit)]
    ELSE LET q == toLowerCase(query)
             filters == searchFilters(q)
             filtered == applyFilters(errs, filters, q)
             text(e) == textHolds(q, e)
         IN IF filtered.fault THEN filtered
            ELSE IF Len(filtered.results) = Len(errs) /\ filters = << >>
            THEN IF \E i \in DOMAIN errs : textThrows(q, errs[i])
                 THEN [fault |-> TRUE, results |-> << >>]
                 ELSE [fault |-> FALSE,
                       results |-> slice(SelectSeq(errs, text), SearchLimit)]
            ELSE [fault |-> FALSE, results |-> slice(filtered.results, SearchLimit)]

-----------------------------------------------------------------------------
(* LogScopeServer *)

\* agent transports, in the order they are opened
LinkOrder == <<"t1", "t2", "t3">>
Links == {LinkOrder[i] : i \in DOMAIN LinkOrder}
\* dashboard sockets
Clients == {"d1", "d2"}

NoRecord == << >>
NoResponse == [status |-> 0, body |-> << >>]

\* the stats objects agents report
StatsValues ==
    { [errors |-> 1, warnings |-> 2, success |-> 3, totalLines |-> 6],
      [errors |-> 0, warnings |-> 1, success |-> 1, totalLines |-> 2] }

\* the error frames agents send to the hub
HubErrors ==
    { [serverId |-> s, serverName |-> serverNameOf(s), logFile |-> "/var/log/app.log",
       errorMessage |-> <<"Database", "timeout", "42">>, timestamp |-> NoTs] :
      s \in ServerIds }

\* Map.prototype.get: the index of the record of serverId, 0 for undefined
agentIndex(ags, serverId) ==
    LET hits == {i \in DOMAIN ags : ags[i].serverId = serverId}
    IN IF hits = {} THEN 0 ELSE CHOOSE i \in hits : TRUE

\* mutant: the record is added without looking for the key
mapSetAppend(ags, agent) == Append(ags, agent)

\* Map.prototype.set: an existing key keeps its place
mapSet(ags, agent) ==
    LET i == agentIndex(ags, agent.serverId)
    IN IF i = 0 THEN Append(ags, agent) ELSE [ags EXCEPT ![i] = agent]

\* the record registerAgent builds (lines 658-666)
newAgent(serverId, ws, clock) ==
    [serverId |-> serverId, status |-> "online", errorCount |-> 0,
     successCount |-> 0, warningCount |-> 0, registeredAt |-> clock,
     ws |-> ws, lastSeen |-> NoTs, assigned |-> << >>]

\* broadcast(type, data): one frame to every client whose readyState is OPEN
broadcast(type, data) ==
    LET open(c) == readyState[c] = "OPEN"
        to == SelectSeq(clients, open)
    IN [i \in DOMAIN to |-> [to |-> to[i], type |-> type, data |-> data]]

RecentLimit == 50

\* mutant: the close handler marks the first record, whatever its transport
closedIndexFirst(ags, ws) == IF ags = << >> THEN {} ELSE {1}

\* the agents the close handler marks: the first record bound to ws
\* (lines 631-638, the loop ends at the first match)
closedIndex(ags, ws) ==
    LET hits == {i \in DOMAIN ags : ags[i].ws = ws}
    IN IF hits = {} THEN {} ELSE {CHOOSE i \in hits : \A j \in hits : i <= j}

\* mutant: going offline resets the error counter
markOfflineReset(agent, clock) ==
    [agent EXCEPT !.status = "offline", !.lastSeen = clock, !.errorCount = 0]

\* lines 633-634
markOffline(agent, clock) == [agent EXCEPT !.status = "offline", !.lastSeen = clock]

\* line 693: Object.assign(agent, statsData.stats)
assignStats(agent, stats) == [agent EXCEPT !.assigned = <<stats>>]

RECURSIVE sum(_, _)
\* servers.reduce((sum, s) => sum + (s[field] || 0), 0)
sum(s, field) ==
    IF s = << >> THEN 0 ELSE s[1][field] + sum(Tail(s), field)

\* the body of GET /api/stats (lines 305-312)
statsBody(ags) ==
    LET online(a) == a.status = "online"
    IN [totalErrors |-> sum(ags, "errorCount"),
        totalSuccess |-> sum(ags, "successCount"),
        totalWarnings |-> sum(ags, "warningCount"),
        totalServers |-> Len(ags),
        onlineServers |-> Len(SelectSeq(ags, online))]

-----------------------------------------------------------------------------
(* SmartLogParser.  A line is a sequence of tokens, the tokens of a line
   separated by single spaces; a string is a sequence of words. *)

\* the lines of the model
GenericLine == <<"[2025-08-01 10:30:15]", "ERROR:", "Database", "connection", "failed">>
IsoLine == <<"2025-08-01T10:30:15Z", "WARN", "disk", "slow">>
LevelLine == <<"FATAL:", "out", "of", "memory">>
PlainLine == <<"user", "login", "ok">>
RefusedLine == <<"connection", "refused">>
NginxLine ==
    <<"2025/08/01 10:30:15", "[error]", "12345#0:", "*67890", "connect()", "failed">>
NginxEmergLine == <<"2025/08/01 10:30:15", "[emerg]", "12345#0:", "bind()", "failed">>
NginxWordLine == <<"nginx", "restart", "ok">>
ApacheLine ==
    <<"[Wed Aug 01 10:30:15 2025]", "[error]", "[pid 12345]", "File", "not", "found">>
ApacheWarnLine == <<"[Wed Aug 01 10:30:15 2025]", "[warn]", "[pid 12345]">>
SyslogLine == <<"Aug  1 10:30:15", "web01", "sshd[12345]:", "authentication", "failure">>
JsonLine ==
    <<"{", "\"timestamp\":", "\"2025-08-01T10:30:15Z\"", ",", "\"level\":", "\"error\"",
      ",", "\"message\":", "\"API timeout\"", "}">>
JsonNoLevelLine == <<"{", "\"message\":", "\"user login ok\"", "}">>
JsonNumberMessageLine ==
    <<"{", "\"level\":", "\"error\"", ",", "\"message\":", "42", "}">>
JsonObjectMessageLine == <<"{", "\"message\":", "{}", "}">>
JsonNullMessageLine ==
    <<"{", "\"level\":", "\"error\"", ",", "\"message\":", "null", "}">>
JsonNumberLevelLine ==
    <<"{", "\"level\":", "42", ",", "\"message\":", "\"API timeout\"", "}">>
JsonCutLine == <<"{", "\"level\":", "\"error\"">>
JsonNullLine == <<"null">>

TextLines ==
    {GenericLine, IsoLine, LevelLine, PlainLine, RefusedLine, NginxLine,
     NginxEmergLine, NginxWordLine, ApacheLine, ApacheWarnLine, SyslogLine}
JsonLines ==
    {JsonLine, JsonNoLevelLine, JsonNumberMessageLine, JsonObjectMessageLine,
     JsonNullMessageLine, JsonNumberLevelLine, JsonCutLine, JsonNullLine}
Lines == TextLines \cup JsonLines

\* logFile.type: the four named parsers, auto, and a type without a parser
LogTypes == {"nginx", "apache", "json", "syslog", "auto", "generic"}

\* a JavaScript value: a string (its words in s), a number, an object, null,
\* or undefined
Undefined == [t |-> "undefined", s |-> << >>]
Str(words) == [t |-> "string", s |-> words]
\* what `value || ...` tests: undefined, null, 0 and "" are falsy
truthy(value) ==
    /\ value.t \in {"string", "number", "object"}
    /\ value.t = "string" => value.s # << >>

\* the value a JSON token stands for, Undefined for a token that is no value
jsonValue(tok) ==
    CASE tok = "\"error\"" -> Str(<<"error">>)
      [] tok = "\"API timeout\"" -> Str(<<"API", "timeout">>)
      [] tok = "\"user login ok\"" -> Str(<<"user", "login", "ok">>)
      [] tok = "\"2025-08-01T10:30:15Z\"" -> Str(<<"2025-08-01T10:30:15Z">>)
      [] tok = "42" -> [t |-> "number", s |-> << >>]
      [] tok = "{}" -> [t |-> "object", s |-> << >>]
      [] tok = "null" -> [t |-> "null", s |-> << >>]
      [] OTHER -> Undefined

\* the member name a JSON token stands for, None for a token that is no name
jsonName(tok) ==
    CASE tok = "\"timestamp\":" -> "timestamp"
      [] tok = "\"level\":" -> "level"
      [] tok = "\"message\":" -> "message"
      [] OTHER -> None

NoMembers == [timestamp |-> Undefined, level |-> Undefined, message |-> Undefined]

RECURSIVE jsonMembers(_, _)
\* the members of an object, from the tokens after its opening brace; ok is
\* FALSE where JSON.parse throws a SyntaxError
jsonMembers(toks, acc) ==
    IF Len(toks) < 3 \/ jsonName(toks[1]) = None \/ jsonValue(toks[2]) = Undefined
    THEN [ok |-> FALSE, kind |-> None, members |-> NoMembers]
    ELSE LET next == [acc EXCEPT ![jsonName(toks[1])] = jsonValue(toks[2])]
         IN IF toks[3] = "}" /\ Len(toks) = 3
            THEN [ok |-> TRUE, kind |-> "object", members |-> next]
            ELSE IF toks[3] = ","
            THEN jsonMembers(SubSeq(toks, 4, Len(toks)), next)
            ELSE [ok |-> FALSE, kind |-> None, members |-> NoMembers]

\* JSON.parse(line)
jsonParse(line) ==
    IF line # << >> /\ Head(line) = "{"
    THEN jsonMembers(Tail(line), NoMembers)
    ELSE IF Len(line) = 1 /\ jsonValue(line[1]) # Undefined
    THEN [ok |-> TRUE, kind |-> jsonValue(line[1]).t, members |-> NoMembers]
    ELSE [ok |-> FALSE, kind |-> None, members |-> NoMembers]

\* the level names of the patterns of parseGeneric, matched without regard
\* to case and followed by a colon or a space: the name the token holds
levelName(tok) ==
    CASE tok \in {"ERROR:", "ERROR"} -> "ERROR"
      [] tok \in {"WARN", "WARN:"} -> "WARN"
      [] tok \in {"FATAL:", "FATAL"} -> "FATAL"
      [] tok \in {"INFO", "INFO:"} -> "INFO"
      [] OTHER -> None

\* tokens matched whole by /\[([^\]]+)\]/: what the brackets hold
bracketed(tok) ==
    CASE tok = "[2025-08-01 10:30:15]" -> "2025-08-01 10:30:15"
      [] tok = "[Wed Aug 01 10:30:15 2025]" -> "Wed Aug 01 10:30:15 2025"
      [] tok = "[error]" -> "error"
      [] tok = "[warn]" -> "warn"
      [] tok = "[emerg]" -> "emerg"
      [] tok = "[pid 12345]" -> "pid 12345"
      [] OTHER -> None

\* tokens matched whole by /\[(\w+)\]/: the word
bracketedWord(tok) ==
    IF tok \in {"[error]", "[warn]", "[emerg]"} THEN bracketed(tok) ELSE None

\* tokens matched whole by /\d{4}\/\d{2}\/\d{2} \d{2}:\d{2}:\d{2}/
IsNginxTime(tok) == tok = "2025/08/01 10:30:15"
\* tokens matched whole by /\d+#\d+:/
IsNginxPid(tok) == tok = "12345#0:"
\* tokens matched whole by /\*\d+/
IsNginxConnection(tok) == tok = "*67890"
\* tokens matched whole by /\[pid \d+\]/
IsApachePid(tok) == tok = "[pid 12345]"
\* tokens matched whole by /\[client [^\]]+\]/
IsApacheClient(tok) == tok = "[client 192.168.1.1:12345]"
\* tokens matched whole by /\w{3}\s+\d{1,2} \d{2}:\d{2}:\d{2}/
IsSyslogTime(tok) == tok = "Aug  1 10:30:15"
\* tokens matched whole by /[^:\[]+(?:\[\d+\])?:/
IsSyslogService(tok) == tok \in {"sshd[12345]:", "cron:"}
\* tokens matched whole by /\S+/
IsWord(tok) ==
    tok \notin {"2025/08/01 10:30:15", "[2025-08-01 10:30:15]", "Aug  1 10:30:15",
                "[Wed Aug 01 10:30:15 2025]", "[pid 12345]",
                "[client 192.168.1.1:12345]", "\"API timeout\"", "\"user login ok\"", " "}

\* the strings new Date() understands, as ISO strings
dateOf(str) ==
    CASE str = "2025-08-01T10:30:15Z" -> "2025-08-01T10:30:15.000Z"
      [] str = "2025-08-01 10:30:15" -> "2025-08-01T10:30:15.000Z"
      [] str = "Wed Aug 01 10:30:15 2025" -> "2025-08-01T10:30:15.000Z"
      [] str = "2025 Aug  1 10:30:15" -> "2025-08-01T10:30:15.000Z"
      [] OTHER -> None

\* new Date().toISOString()
Now == "now"

\* parseTimestamp(timestampStr) for a string, None for a missing one (lines
\* 961-979); the year of the clock is 2025
parseTimestamp(str) ==
    IF str = None THEN Now
    ELSE LET dateStr == IF IsSyslogTime(str) THEN "2025 " \o str ELSE str
         IN IF dateOf(dateStr) = None THEN Now ELSE dateOf(dateStr)

\* parseTimestamp of a value of a JSON line
parseTimestampValue(value) ==
    CASE ~truthy(value) -> Now
      [] value.t = "string" -> parseTimestamp(value.s[1])
      [] value.t = "number" -> "1970-01-01T00:00:00.042Z"
      [] OTHER -> Now

\* String.prototype.toUpperCase on a level name
Upper(name) ==
    CASE name = "error" -> "ERROR"
      [] name = "warn" -> "WARN"
      [] name = "emerg" -> "EMERG"
      [] OTHER -> name

\* normalizeLevel(level) for a string, None for a missing one (lines 892-904)
normalizeLevel(level) ==
    IF level = None THEN "INFO"
    ELSE LET normalizedLevel == Upper(level)
         IN CASE normalizedLevel \in {"E", "ERR", "FATAL", "CRITICAL", "CRIT"} -> "ERROR"
              [] normalizedLevel \in {"W", "WARNING", "WARN"} -> "WARN"
              [] normalizedLevel \in {"I", "NOTICE", "LOG"} -> "INFO"
              [] normalizedLevel \in {"D", "TRACE", "VERBOSE"} -> "DEBUG"
              [] OTHER -> normalizedLevel

\* TRUE when one of the keywords is in the lower-case string
someIncludes(lower, keywords) == \E k \in keywords : includes(lower, <<k>>)

\* detectLevelFromContent(content) (lines 906-916)
detectLevelFromContent(content) ==
    LET lower == toLowerCase(content)
    IN IF someIncludes(lower, {"error", "exception", "failed", "failure", "timeout",
                               "refused", "denied", "fatal", "critical", "panic",
                               "abort"})
       THEN "ERROR"
       ELSE IF someIncludes(lower, {"warning", "warn", "deprecated", "retry",
                                    "fallback", "slow"})
       THEN "WARN"
       ELSE "INFO"

\* what a parser returns, before parse adds semantics and urgency
Parsed(timestamp, level, message, parser) ==
    [timestamp |-> timestamp, level |-> level, message |-> message, parser |-> parser]

\* parseGeneric(line) (lines 776-807): the three patterns in turn, then the
\* fallback
parseGeneric(line) ==
    IF Len(line) >= 3 /\ bracketed(line[1]) # None /\ levelName(line[2]) # None
    THEN Parsed(parseTimestamp(bracketed(line[1])), normalizeLevel(levelName(line[2])),
                Str(trim(SubSeq(line, 3, Len(line)))), "generic")
    ELSE IF Len(line) >= 3 /\ IsTimestampTok(line[1]) /\ levelName(line[2]) # None
    THEN Parsed(parseTimestamp(line[1]), normalizeLevel(levelName(line[2])),
                Str(trim(SubSeq(line, 3, Len(line)))), "generic")
    ELSE IF Len(line) >= 2 /\ levelName(line[1]) # None
    THEN Parsed(Now, normalizeLevel(levelName(line[1])),
                Str(trim(SubSeq(line, 2, Len(line)))), "generic")
    ELSE Parsed(Now, detectLevelFromContent(line), Str(trim(line)), "fallback")

\* the first of the values that is truthy, the last one otherwise: a || b || c
firstTruthy(values) ==
    IF \E i \in DOMAIN values : truthy(values[i])
    THEN values[CHOOSE i \in DOMAIN values :
                    truthy(values[i]) /\ \A j \in 1..(i - 1) : ~truthy(values[j])]
    ELSE values[Len(values)]

\* parseJSON(line) (lines 809-828).  The members the lines of the model carry
\* are timestamp, level and message; time, @timestamp, severity, msg and text
\* are undefined.  A TypeError inside the try block (a member of null, the
\* toUpperCase of a level that is no string) ends in parseGeneric, as a
\* SyntaxError of JSON.parse does
parseJSON(line) ==
    LET json == jsonParse(line)
        level == firstTruthy(<<json.members.level, Undefined, Str(<<"INFO">>)>>)
        message == firstTruthy(<<json.members.message, Undefined, Undefined, Str(line)>>)
    IN IF ~json.ok \/ json.kind = "null" \/ level.t # "string"
       THEN parseGeneric(line)
       ELSE Parsed(parseTimestampValue(firstTruthy(<<json.members.timestamp, Undefined,
                                                     Undefined>>)),
                   normalizeLevel(level.s[1]), message, "json")

\* match[1].replace(/\//g, '-') (line 837)
slashesToDashes(str) ==
    CASE str = "2025/08/01 10:30:15" -> "2025-08-01 10:30:15"
      [] OTHER -> str

\* parseNginx(line) (lines 830-846)
parseNginx(line) ==
    LET from == IF Len(line) >= 5 /\ IsNginxConnection(line[4]) THEN 5 ELSE 4
    IN IF /\ Len(line) >= 4
          /\ IsNginxTime(line[1])
          /\ bracketedWord(line[2]) # None
          /\ IsNginxPid(line[3])
       THEN Parsed(parseTimestamp(slashesToDashes(line[1])),
                   normalizeLevel(bracketedWord(line[2])),
                   Str(SubSeq(line, from, Len(line))), "nginx")
       ELSE parseGeneric(line)

\* parseApache(line) (lines 848-864): the pid and client groups are optional,
\* and are part of the message when nothing follows them
parseApache(line) ==
    LET afterPid == IF Len(line) >= 4 /\ IsApachePid(line[3]) THEN 4 ELSE 3
        afterClient == IF Len(line) > afterPid /\ IsApacheClient(line[afterPid])
                       THEN afterPid + 1 ELSE afterPid
    IN IF Len(line) >= 3 /\ bracketed(line[1]) # None /\ bracketedWord(line[2]) # None
       THEN Parsed(parseTimestamp(bracketed(line[1])),
                   normalizeLevel(bracketedWord(line[2])),
                   Str(SubSeq(line, afterClient, Len(line))), "apache")
       ELSE parseGeneric(line)

\* parseSyslog(line) (lines 866-886)
parseSyslog(line) ==
    IF /\ Len(line) >= 4
       /\ IsSyslogTime(line[1])
       /\ IsWord(line[2])
       /\ IsSyslogService(line[3])
    THEN Parsed(parseTimestamp(line[1]),
                detectLevelFromContent(SubSeq(line, 4, Len(line))),
                Str(SubSeq(line, 4, Len(line))), "syslog")
    ELSE parseGeneric(line)

\* isSyslogFormat(line) (lines 888-890)
isSyslogFormat(line) ==
    Len(line) >= 3 /\ IsSyslogTime(line[1]) /\ IsWord(line[2]) /\ IsWord(line[3])

\* parseAuto(line) (lines 766-774)
parseAuto(line) ==
    IF trim(line) # << >> /\ Head(trim(line)) = "{" THEN parseJSON(line)
    ELSE IF includes(line, <<"nginx">>) THEN parseNginx(line)
    ELSE IF includes(line, <<"apache">>) THEN parseApache(line)
    ELSE IF isSyslogFormat(line) THEN parseSyslog(line)
    ELSE parseGeneric(line)

\* tokens with a match of /\b\d{1,3}\.\d{1,3}\.\d{1,3}\.\d{1,3}\b/
HasIpAddress(tok) == tok = "[client 192.168.1.1:12345]"
\* tokens with a match of /https?:\/\/[^\s]+/
HasUrl(tok) == tok = "http://localhost:8080"
\* tokens with a match of /\b[4-5]\d{2}\b/
HasStatusCode(tok) == tok \in {"401", "500"}
\* tokens with a match of /\d{4}-\d{2}-\d{2}/
HasDate(tok) ==
    tok \in {"2025-08-01T10:30:15Z", "[2025-08-01 10:30:15]", "\"2025-08-01T10:30:15Z\""}

\* extractSemantics(message) for a string (lines 918-933)
extractSemantics(message) ==
    LET lower == toLowerCase(message)
    IN [hasIpAddress |-> \E i \in DOMAIN message : HasIpAddress(message[i]),
        hasUrl |-> \E i \in DOMAIN message : HasUrl(message[i]),
        hasStatusCode |-> \E i \in DOMAIN message : HasStatusCode(message[i]),
        hasTimestamp |-> \E i \in DOMAIN message : HasDate(message[i]),
        hasDatabase |-> someIncludes(lower, {"database", "db", "sql", "query", "table",
                                             "connection"}),
        hasNetwork |-> someIncludes(lower, {"network", "socket", "connection", "host",
                                            "port"}),
        hasAuth |-> someIncludes(lower, {"auth", "login", "password", "token",
                                         "permission"}),
        hasMemory |-> someIncludes(lower, {"memory", "heap", "oom", "malloc"}),
        hasSecurity |-> someIncludes(lower, {"security", "attack", "breach",
                                             "suspicious"})]

\* mutant: no base score for the level
levelScoreNone(level) == 0

\* levelScores[parsed.level] || 0 (lines 939-940)
levelScore(level) ==
    CASE level = "ERROR" -> 8
      [] level = "WARN" -> 4
      [] level = "INFO" -> 1
      [] OTHER -> 0

UrgencyCap == 10

\* calculateUrgency(parsed) for a message that is a string (lines 935-959)
calculateUrgency(level, semantics, message) ==
    LET lower == toLowerCase(message)
        score == levelScore(level)
                 + (IF semantics.hasDatabase THEN 2 ELSE 0)
                 + (IF semantics.hasNetwork THEN 1 ELSE 0)
                 + (IF semantics.hasAuth THEN 3 ELSE 0)
                 + (IF semantics.hasSecurity THEN 5 ELSE 0)
                 + (IF semantics.hasMemory THEN 2 ELSE 0)
                 + (IF semantics.hasStatusCode THEN 1 ELSE 0)
                 + (IF someIncludes(lower, {"critical", "fatal"}) THEN 3 ELSE 0)
                 + (IF includes(lower, <<"timeout">>) THEN 2 ELSE 0)
                 + (IF someIncludes(lower, {"failed", "failure"}) THEN 2 ELSE 0)
    IN IF score < UrgencyCap THEN score ELSE UrgencyCap

\* no event: parse has raised
NoEvent ==
    [timestamp |-> None, level |-> None, message |-> << >>, parser |-> None,
     semantics |-> extractSemantics(<< >>), urgency |-> 0]

\* lines 760-763: the event parse returns for what a parser returned with a
\* message that is a string
enhance(result) ==
    [timestamp |-> result.timestamp, level |-> result.level,
     message |-> result.message.s, parser |-> result.parser,
     semantics |-> extractSemantics(result.message.s),
     urgency |-> calculateUrgency(result.level, extractSemantics(result.message.s),
                                  result.message.s)]

\* mutant: the type of the log file is not looked at
parserAuto(type, line) == parseAuto(line)

\* this.parsers[logFile.type] || this.parsers.auto, applied to the line
parserOf(type, line) ==
    CASE type = "nginx" -> parseNginx(line)
      [] type = "apache" -> parseApache(line)
      [] type = "json" -> parseJSON(line)
      [] type = "syslog" -> parseSyslog(line)
      [] OTHER -> parseAuto(line)

\* parse(line, logFile) (lines 755-764): raised is TRUE when the call throws,
\* which message.toLowerCase() does (line 919) for a message that is no string
parse(line, type) ==
    LET result == parserOf(type, line)
    IN IF result.message.t # "string"
       THEN [raised |-> TRUE, event |-> NoEvent]
       ELSE [raised |-> FALSE, event |-> enhance(result)]

\* parse on the lines and types of the model, computed once
parseTable == [l \in Lines |-> [ty \in LogTypes |-> parse(l, ty)]]

-----------------------------------------------------------------------------
(* State machine *)

NoCall == [op |-> "init", serverId |-> None, link |-> None, arg |-> << >>]
NoPending == [incoming |-> << >>, ws |-> None, record |-> << >>, expected |-> << >>]

\* no agent runs: the server and the tailer specifications
NoAgent ==
    /\ logScopeAgent = None
    /\ sockets = << >>
    /\ parsed = None

\* the FileTailer constructor (lines 984-990), nothing written yet
NewTailer ==
    /\ tailer = [position |-> 0, running |-> FALSE, retry |-> FALSE, delay |-> 0,
                 watching |-> FALSE]
    /\ stat = [prev |-> 0, curr |-> << >>]
    /\ delivered = << >>
    /\ written = [started |-> FALSE, steady |-> FALSE, appended |-> << >>,
                  rotated |-> FALSE, fresh |-> << >>, mark |-> 0]

\* the server: no tailer runs, no file is tailed
NoTailer == NewTailer /\ file = [exists |-> FALSE, content |-> << >>]

\* the identity of a stored error in the store
Fingerprint(e) == <<e.serverId, e.logFile, normalized[e.errorMessage]>>

\* the history variable after an addError(incoming) that leaves the list errs
counted(errs, incoming) ==
    [fp \in {Fingerprint(errs[i]) : i \in DOMAIN errs} |->
        IF fp \in DOMAIN occurrences
        THEN occurrences[fp] + (IF fp = Fingerprint(incoming) THEN 1 ELSE 0)
        ELSE 1]

\* the server after its constructors, the capacity of the store aside
InitServer ==
    /\ errors = << >>
    /\ patterns = << >>
    /\ insights = << >>
    /\ now = 0
    /\ agents = << >>
    /\ links = [l \in Links |-> "idle"]
    /\ clients = << >>
    /\ readyState = [c \in Clients |-> "CLOSED"]
    /\ call = NoCall
    /\ returned = NoRecord
    /\ outbox = << >>
    /\ response = NoResponse
    /\ steps = 0
    /\ occurrences = << >>
    /\ pc = "idle"
    /\ pending = NoPending

InitCommon == InitServer /\ NoTailer /\ NoAgent

\* a store configured with a small capacity
Init == InitCommon /\ maxErrors = MaxErrors

\* a store with the capacity of the constructor
InitDefault == InitCommon /\ maxErrors = DefaultMaxErrors

\* the clock advances
Tick ==
    /\ now < MaxTick * OneHour
    /\ now' = now + OneHour
    /\ call' = [NoCall EXCEPT !.op = "tick"]
    /\ returned' = NoRecord
    /\ outbox' = << >>
    /\ response' = NoResponse
    /\ UNCHANGED <<storeVars, hubVars, steps, occurrences, stepVars, tailVars, agentVars>>

\* store.addError(incoming), called directly
AddErrorCall(incoming) ==
    \E r \in {addError(errors, patterns, insights, maxErrors, incoming, now)} :
       /\ errors' = r.errors
       /\ patterns' = r.patterns
       /\ insights' = r.insights
       /\ returned' = <<r.returned>>
       /\ occurrences' = counted(r.errors, incoming)
       /\ call' = [op |-> "addError", serverId |-> incoming.serverId, link |-> None,
                   arg |-> <<incoming>>]
       /\ outbox' = << >>
       /\ response' = NoResponse
       /\ UNCHANGED <<maxErrors, now, hubVars, stepVars, tailVars, agentVars>>

\* the error objects handed to addError in the store specification
StoreSources ==
    { [serverId |-> "s1", logFile |-> "/var/log/app.log"],
      [serverId |-> "s1", logFile |-> "/var/log/db.log"],
      [serverId |-> "s2", logFile |-> "/var/log/app.log"] }

StoreErrors ==
    { [serverId |-> src.serverId, serverName |-> serverNameOf(src.serverId),
       logFile |-> src.logFile, errorMessage |-> m, timestamp |-> ts] : src \in StoreSources, m \in Messages, ts \in {NoTs, 0} }

StoreCall ==
    /\ steps < MaxCalls
    /\ steps' = steps + 1
    /\ \E incoming \in StoreErrors : AddErrorCall(incoming)

StoreNext ==
    \/ Tick
    \/ StoreCall

\* the MemoryStore alone, under every sequence of MaxCalls addError calls
SpecStore == Init /\ [][StoreNext]_vars

-----------------------------------------------------------------------------
(* A burst of errors from many sources: the store with its default capacity *)

BurstFiles ==
    << "/var/log/app.log", "/var/log/db.log", "/var/log/api.log",
       "/var/log/auth.log", "/var/log/queue.log", "/var/log/cache.log" >>

\* the k-th source: the two agents in turn, each with its next log file
BurstSource(k) ==
    [serverId |-> IF k % 2 = 1 THEN "s1" ELSE "s2",
     logFile |-> BurstFiles[(k + 1) \div 2]]

RECURSIVE repeats(_)
\* the number of merges the stored errors have seen
repeats(errs) ==
    IF errs = << >> THEN 0 ELSE (errs[1].count - 1) + repeats(Tail(errs))

\* the next source reports the error for the first time
BurstNew ==
    /\ Len(errors) < MaxBurst
    /\ AddErrorCall([serverId |-> BurstSource(Len(errors) + 1).serverId,
                     serverName |-> serverNameOf(BurstSource(Len(errors) + 1).serverId),
                     logFile |-> BurstSource(Len(errors) + 1).logFile,
                     errorMessage |-> <<"Database", "timeout", "42">>,
                     timestamp |-> NoTs])
    /\ UNCHANGED steps

\* a source reports the error again
BurstRepeat ==
    /\ repeats(errors) < MaxRepeats
    /\ \E i \in DOMAIN errors :
          AddErrorCall([serverId |-> errors[i].serverId,
                        serverName |-> errors[i].serverName,
                        logFile |-> errors[i].logFile,
                        errorMessage |-> <<"database", "timeout", "500", " ">>,
                        timestamp |-> NoTs])
    /\ UNCHANGED steps

BurstNext ==
    \/ Tick
    \/ BurstNew
    \/ BurstRepeat

SpecBurst == InitDefault /\ [][BurstNext]_vars

-----------------------------------------------------------------------------
(* Two agents, one log file each, that report the same error again and again:
   the store with its default capacity *)

PairSources ==
    { [serverId |-> "s1", logFile |-> "/var/log/app.log"],
      [serverId |-> "s2", logFile |-> "/var/log/app.log"] }


RECURSIVE sentBy(_, _)
\* the number of errors of the agent the store has taken: the counts of its
\* records
sentBy(errs, serverId) ==
    IF errs = << >> THEN 0
    ELSE (IF errs[1].serverId = serverId THEN errs[1].count ELSE 0)
         + sentBy(Tail(errs), serverId)

\* an agent reports the error
PairSend ==
    \E src \in PairSources, m \in PairMessages :
        /\ sentBy(errors, src.serverId) < MaxPairErrors
        /\ AddErrorCall([serverId |-> src.serverId,
                         serverName |-> serverNameOf(src.serverId),
                         logFile |-> src.logFile, errorMessage |-> m,
                         timestamp |-> NoTs])
        /\ UNCHANGED steps

PairNext ==
    \/ Tick
    \/ PairSend

SpecPair == InitDefault /\ [][PairNext]_vars

-----------------------------------------------------------------------------
(* The server: agent transports, dashboard sockets, REST *)

\* mutant: a callback is taken while a handler is still running
dispatchableAnytime == TRUE

\* the event loop takes the next callback when the handler that is running
\* has returned: the handlers are synchronous functions
dispatchable == pc = "idle"

\* every handler below is one event of the server's event loop
Event(op, serverId, link, arg) ==
    /\ dispatchable
    /\ UNCHANGED <<stepVars, tailVars, agentVars>>
    /\ steps < MaxEvents
    /\ steps' = steps + 1
    /\ call' = [op |-> op, serverId |-> serverId, link |-> link, arg |-> arg]

\* agentWss 'connection': the next transport opens
AgentConnect ==
    \E i \in DOMAIN LinkOrder :
        /\ links[LinkOrder[i]] = "idle"
        /\ \A j \in 1..(i - 1) : links[LinkOrder[j]] # "idle"
        /\ links' = [links EXCEPT ![LinkOrder[i]] = "open"]
        /\ Event("connection", None, LinkOrder[i], << >>)
        /\ returned' = NoRecord
        /\ outbox' = << >>
        /\ response' = NoResponse
        /\ UNCHANGED <<storeVars, now, agents, clients, readyState, occurrences>>

\* registerAgent(agentData, ws)
registerAgent(serverId, ws) ==
    /\ links[ws] = "open"
    /\ agents' = mapSet(agents, newAgent(serverId, ws, now))
    /\ outbox' = broadcast("servers", agents')
    /\ Event("register", serverId, ws, << >>)
    /\ returned' = NoRecord
    /\ response' = NoResponse
    /\ UNCHANGED <<storeVars, now, links, clients, readyState, occurrences>>

\* lines 678-682: the agent's counters after an error of serverId
countError(ags, serverId, clock) ==
    LET i == agentIndex(ags, serverId)
    IN IF i = 0 THEN ags
       ELSE [ags EXCEPT ![i].errorCount = @ + 1, ![i].lastSeen = clock]

\* handleError(errorData), for an error frame received on ws
handleError(incoming, ws) ==
    /\ links[ws] = "open"
    /\ \E r \in {addError(errors, patterns, insights, maxErrors, incoming, now)} :
          /\ errors' = r.errors
          /\ patterns' = r.patterns
          /\ insights' = r.insights
          /\ returned' = <<r.returned>>
          /\ occurrences' = counted(r.errors, incoming)
          /\ outbox' = broadcast("newError", <<r.returned>>)
                       \o broadcast("errors", slice(r.errors, RecentLimit))
                       \o broadcast("insights", r.insights)
    /\ agents' = countError(agents, incoming.serverId, now)
    /\ Event("error", incoming.serverId, ws, <<incoming>>)
    /\ response' = NoResponse
    /\ UNCHANGED <<maxErrors, now, links, clients, readyState>>

\* updateStats(statsData), for a stats frame received on ws
updateStats(serverId, stats, ws) ==
    /\ links[ws] = "open"
    /\ LET i == agentIndex(agents, serverId)
       IN IF i # 0
          THEN /\ agents' = [agents EXCEPT
                                ![i] = [assignStats(@, stats) EXCEPT !.lastSeen = now]]
               /\ outbox' = broadcast("servers", agents')
          ELSE /\ agents' = agents
               /\ outbox' = << >>
    /\ Event("stats", serverId, ws, <<stats>>)
    /\ returned' = NoRecord
    /\ response' = NoResponse
    /\ UNCHANGED <<storeVars, now, links, clients, readyState, occurrences>>

\* the agents after the close handler of ws (lines 631-638)
closeAgents(ags, ws, clock) ==
    [i \in DOMAIN ags |->
        IF i \in closedIndex(ags, ws) THEN markOffline(ags[i], clock) ELSE ags[i]]

\* ws 'close' on an agent transport
AgentClose(ws) ==
    /\ links[ws] = "open"
    /\ links' = [links EXCEPT ![ws] = "closed"]
    /\ agents' = closeAgents(agents, ws, now)
    /\ outbox' = IF closedIndex(agents, ws) # {} THEN broadcast("servers", agents')
                 ELSE << >>
    /\ Event("close", None, ws, << >>)
    /\ returned' = NoRecord
    /\ response' = NoResponse
    /\ UNCHANGED <<storeVars, now, clients, readyState, occurrences>>

\* mutant: the stored errors are sent before the agent list
snapshotErrorsFirst(c) ==
    << [to |-> c, type |-> "errors", data |-> slice(errors, RecentLimit)],
       [to |-> c, type |-> "servers", data |-> agents],
       [to |-> c, type |-> "insights", data |-> insights] >>

\* lines 610-612: the three frames sent to the socket that has connected
snapshot(c) ==
    << [to |-> c, type |-> "servers", data |-> agents],
       [to |-> c, type |-> "errors", data |-> slice(errors, RecentLimit)],
       [to |-> c, type |-> "insights", data |-> insights] >>

\* wss 'connection': a dashboard subscribes (lines 606-615)
Subscribe(c) ==
    /\ readyState[c] = "CLOSED"
    /\ clients' = Append(clients, c)
    /\ readyState' = [readyState EXCEPT ![c] = "OPEN"]
    /\ outbox' = snapshot(c)
    /\ Event("subscribe", None, c, << >>)
    /\ returned' = NoRecord
    /\ response' = NoResponse
    /\ UNCHANGED <<storeVars, now, agents, links, occurrences>>

\* a dashboard socket starts closing: it is no longer OPEN, its close event
\* is still to come
ClientClosing(c) ==
    /\ readyState[c] = "OPEN"
    /\ readyState' = [readyState EXCEPT ![c] = "CLOSING"]
    /\ Event("closing", None, c, << >>)
    /\ returned' = NoRecord
    /\ outbox' = << >>
    /\ response' = NoResponse
    /\ UNCHANGED <<storeVars, now, agents, links, clients, occurrences>>

\* ws 'close' on a dashboard socket (line 614)
ClientClose(c) ==
    /\ readyState[c] # "CLOSED"
    /\ LET other(d) == d # c IN clients' = SelectSeq(clients, other)
    /\ readyState' = [readyState EXCEPT ![c] = "CLOSED"]
    /\ Event("unsubscribe", None, c, << >>)
    /\ returned' = NoRecord
    /\ outbox' = << >>
    /\ response' = NoResponse
    /\ UNCHANGED <<storeVars, now, agents, links, occurrences>>

\* the frames of an agent that are not well formed: text that is not JSON, an
\* unknown type, and register / error / stats frames whose data is absent
\* (data = << >>) or lacks a field (the field is None)
MalformedFrames ==
    { [json |-> FALSE, type |-> None, data |-> << >>],
      [json |-> TRUE, type |-> "ping", data |-> << >>],
      [json |-> TRUE, type |-> "register", data |-> << >>],
      [json |-> TRUE, type |-> "register", data |-> <<[serverId |-> None]>>],
      [json |-> TRUE, type |-> "error", data |-> << >>],
      [json |-> TRUE, type |-> "error",
       data |-> <<[serverId |-> "s1", serverName |-> "Web",
                   logFile |-> "/var/log/app.log",
                   errorMessage |-> None, timestamp |-> NoTs]>>],
      [json |-> TRUE, type |-> "error",
       data |-> <<[serverId |-> None, serverName |-> None,
                   logFile |-> "/var/log/app.log",
                   errorMessage |-> <<"login", "failed", "401">>,
                   timestamp |-> NoTs]>>],
      [json |-> TRUE, type |-> "stats", data |-> << >>],
      [json |-> TRUE, type |-> "stats",
       data |-> <<[serverId |-> None,
                   stats |-> [errors |-> 0, warnings |-> 1, success |-> 1,
                              totalLines |-> 2]]>>] }

\* TRUE when the message handler leaves its try block by an exception before
\* anything is assigned: JSON.parse of text that is not JSON, a property read
\* on undefined data (agentData.serverId, error.errorMessage,
\* statsData.serverId), message.toLowerCase() of an undefined errorMessage
throws(frame) ==
    \/ ~frame.json
    \/ /\ frame.type \in {"register", "error", "stats"}
       /\ frame.data = << >>
    \/ /\ frame.type = "error"
       /\ frame.data # << >>
       /\ frame.data[1].errorMessage = None

\* ws 'message' for a frame of MalformedFrames (lines 620-627) and the switch
\* of handleAgentMessage (lines 643-655); a frame that reaches no case and a
\* frame that throws leave everything as it is
onMessage(frame, ws) ==
    IF throws(frame) \/ frame.type \notin {"register", "error", "stats"}
    THEN /\ links[ws] = "open"
         /\ Event("message", None, ws, <<frame>>)
         /\ returned' = NoRecord
         /\ outbox' = << >>
         /\ response' = NoResponse
         /\ UNCHANGED <<storeVars, now, hubVars, occurrences>>
    ELSE CASE frame.type = "register" -> registerAgent(frame.data[1].serverId, ws)
           [] frame.type = "error" -> handleError(frame.data[1], ws)
           [] frame.type = "stats" ->
                 updateStats(frame.data[1].serverId, frame.data[1].stats, ws)

\* a request without limit parameter
NoLimit == -1

\* parseInt(url.searchParams.get('limit')) || 50, for a limit parameter that
\* is absent or an integer >= 0
limitOf(limit) == IF limit = NoLimit \/ limit = 0 THEN DefaultLimit ELSE limit

\* mutant: the handler answers 200 when it has caught an exception
faultResponseOk(message) == [status |-> 200, body |-> <<[error |-> message]>>]

\* the catch block of handleAPI (lines 334-337)
faultResponse(message) == [status |-> 500, body |-> <<[error |-> message]>>]

\* what handleAPI answers (lines 291-337); q is the q parameter ('' when it is
\* absent), limit the limit parameter
apiResponse(pathname, q, limit) ==
    CASE pathname = "/api/servers" -> [status |-> 200, body |-> agents]
      [] pathname = "/api/errors" ->
            LET found == search(errors, q)
            IN IF found.fault THEN faultResponse("TypeError")
               ELSE [status |-> 200, body |-> slice(found.results, limitOf(limit))]
      [] pathname = "/api/stats" -> [status |-> 200, body |-> <<statsBody(agents)>>]
      [] pathname = "/api/insights" -> [status |-> 200, body |-> insights]
      [] pathname = "/api/health" ->
            [status |-> 200,
             body |-> <<[status |-> "ok", servers |-> Len(agents),
                         errors |-> Len(errors)]>>]
      [] OTHER -> [status |-> 404, body |-> <<[error |-> "Not found"]>>]

\* mutant: the search result replaces the stored list
handleAPIStoring(pathname, q, limit) ==
    /\ response' = apiResponse(pathname, q, limit)
    /\ Event(pathname, None, None, <<q, limit>>)
    /\ returned' = NoRecord
    /\ outbox' = << >>
    /\ errors' = IF pathname = "/api/errors" /\ response'.status = 200
                 THEN response'.body ELSE errors
    /\ UNCHANGED <<patterns, insights, maxErrors, now, hubVars, occurrences>>

\* handleAPI(req, res, url)
handleAPI(pathname, q, limit) ==
    /\ response' = apiResponse(pathname, q, limit)
    /\ Event(pathname, None, None, <<q, limit>>)
    /\ returned' = NoRecord
    /\ outbox' = << >>
    /\ UNCHANGED <<storeVars, now, hubVars, occurrences>>

Next ==
    \/ Tick
    \/ AgentConnect
    \/ \E ws \in Links, serverId \in ServerIds : registerAgent(serverId, ws)
    \/ \E ws \in Links, incoming \in HubErrors : handleError(incoming, ws)
    \/ \E ws \in Links, serverId \in ServerIds, stats \in StatsValues :
          updateStats(serverId, stats, ws)
    \/ \E ws \in Links : AgentClose(ws)
    \/ \E c \in Clients : Subscribe(c)
    \/ \E c \in Clients : ClientClosing(c)
    \/ \E c \in Clients : ClientClose(c)
    \/ \E pathname \in {"/api/servers", "/api/stats"} : handleAPI(pathname, << >>, NoLimit)

Spec == Init /\ [][Next]_vars

-----------------------------------------------------------------------------
(* The REST surface over a store that fills up, default capacity *)

\* the log files of the sources that fill the store
RestFiles ==
    << "/var/log/app.log", "/var/log/app.log.1", "/var/log/app.log.2",
       "/var/log/app.log.3", "/var/log/app.log.4", "/var/log/app.log.5",
       "/var/log/app.log.6", "/var/log/app.log.7", "/var/log/app.log.8",
       "/var/log/app.log.9", "/var/log/app.log.10", "/var/log/app.log.11",
       "/var/log/app.log.12", "/var/log/app.log.13", "/var/log/app.log.14",
       "/var/log/app.log.15", "/var/log/app.log.16", "/var/log/app.log.17",
       "/var/log/app.log.18", "/var/log/app.log.19" >>

\* the k-th error that is stored: the messages and the two agents in turn,
\* the next log file after every six errors
RestError(k) ==
    LET serverId == IF k % 2 = 1 THEN "s1" ELSE "s2"
    IN [serverId |-> serverId, serverName |-> serverNameOf(serverId),
        logFile |-> RestFiles[((k - 1) \div 6) + 1],
        errorMessage |-> SearchMessages[((k - 1) % 3) + 1],
        timestamp |-> NoTs]

\* addError(incoming) on the store s
stored(s, incoming) ==
    addError(s.errors, s.patterns, s.insights, DefaultMaxErrors, incoming, 0)

RECURSIVE fillTo(_, _)
\* the store s after the next errors, n errors in all
fillTo(s, n) ==
    IF Len(s.errors) >= n THEN s
    ELSE fillTo(stored(s, RestError(Len(s.errors) + 1)), n)

\* the store after its first n errors
filled(n) == fillTo([errors |-> << >>, patterns |-> << >>, insights |-> << >>], n)

\* the numbers of errors stored before the first request: few, more than the
\* default limit, more than the limit of search
StoreSizes == 0..3 \cup {DefaultLimit + 1, MaxStored}

\* the first agent has registered and n errors of the two agents are stored
InitRest ==
    \E n \in StoreSizes :
       \E s \in {filled(n)} :
          /\ errors = s.errors
          /\ patterns = s.patterns
          /\ insights = s.insights
          /\ maxErrors = DefaultMaxErrors
          /\ now = 0
          /\ agents = <<newAgent("s1", "t1", 0)>>
          /\ links = [l \in Links |-> IF l = "t1" THEN "open" ELSE "idle"]
          /\ clients = << >>
          /\ readyState = [c \in Clients |-> "CLOSED"]
          /\ call = NoCall
          /\ returned = NoRecord
          /\ outbox = << >>
          /\ response = NoResponse
          /\ steps = 0
          /\ occurrences = [fp \in {Fingerprint(s.errors[i]) : i \in DOMAIN s.errors} |-> 1]
          /\ pc = "idle"
          /\ pending = NoPending
          /\ NoTailer
          /\ NoAgent

\* the agent sends the next error
RestError1 == handleError(RestError(Len(errors) + 1), "t1")

Pathnames ==
    {"/api/servers", "/api/errors", "/api/stats", "/api/insights", "/api/health",
     "/api/nothing"}

\* the q parameters of the requests
Queries ==
    { << >>, <<"critical", "database">>, <<"timeout">>, <<"new">>,
      <<"server", "s2">>, <<"auth">>, <<"login">> }

\* the limit parameters of the requests
Limits == {NoLimit, 1, DefaultLimit + 1, SearchLimit + 1}

\* the parameters of the requests for /api/errors: every limit with the empty
\* query and with a query that every stored error matches, every query
\* without limit
ErrorRequests ==
    {<<q, limit>> \in Queries \X Limits : q \in {<< >>, <<"new">>} \/ limit = NoLimit}

RestRequest ==
    \/ \E r \in ErrorRequests : handleAPI("/api/errors", r[1], r[2])
    \/ \E pathname \in Pathnames \ {"/api/errors"} : handleAPI(pathname, << >>, NoLimit)

RestNext ==
    \/ RestError1
    \/ AgentClose("t1")
    \/ RestRequest

SpecRest == InitRest /\ [][RestNext]_vars

-----------------------------------------------------------------------------
(* Dashboards that subscribe to a server whose store is filled, while the
   agent goes on sending errors *)

SubscribeNext ==
    \/ \E c \in Clients : Subscribe(c)
    \/ \E c \in Clients : ClientClosing(c)
    \/ \E c \in Clients : ClientClose(c)
    \/ RestError1
    \/ AgentClose("t1")

SpecSubscribe == InitRest /\ [][SubscribeNext]_vars

-----------------------------------------------------------------------------
(* An agent that is registered on the first transport and registers again on
   other transports, while the transports close in any order *)

ReconnectNext ==
    \/ Tick
    \/ AgentConnect
    \/ \E ws \in Links, serverId \in ServerIds : registerAgent(serverId, ws)
    \/ \E ws \in Links : AgentClose(ws)

SpecReconnect == InitRest /\ [][ReconnectNext]_vars

-----------------------------------------------------------------------------
(* handleError statement by statement, with the reads of the dashboards *)

\* lines 20-23 of addError: the incoming error with the fields addError sets
prepared(errs, incoming, clock) ==
    [serverId |-> incoming.serverId,
     serverName |-> incoming.serverName,
     logFile |-> incoming.logFile,
     errorMessage |-> incoming.errorMessage,
     category |-> categoryOf[incoming.errorMessage],
     severity |-> severityOf[incoming.errorMessage],
     id |-> generateId(errs),
     timestamp |-> IF incoming.timestamp = NoTs THEN clock ELSE incoming.timestamp]

\* a step inside a handler: nothing is sent, no event is counted
Inside(op) ==
    /\ call' = [op |-> op, serverId |-> pending'.incoming[1].serverId,
                link |-> pending'.ws, arg |-> pending'.incoming]
    /\ returned' = NoRecord
    /\ outbox' = << >>
    /\ response' = NoResponse
    /\ UNCHANGED <<maxErrors, now, hubVars, steps, occurrences, tailVars, agentVars>>

\* an error frame is taken from ws: handleError calls addError, which merges
\* into the stored record (lines 28-30) or puts the new record at the head
\* (lines 33-37)
ErrorBegin(incoming, ws) ==
    /\ dispatchable
    /\ steps < MaxEvents
    /\ links[ws] = "open"
    /\ LET error == prepared(errors, incoming, now)
           k == findSimilarError(errors, error)
           expected == addError(errors, patterns, insights, maxErrors, incoming, now)
       IN IF k # 0
          THEN /\ errors' = mergeExisting(errors, k, error, now)
               /\ pc' = "added"
               /\ pending' = [incoming |-> <<incoming>>, ws |-> ws,
                              record |-> <<errors'[k]>>, expected |-> <<expected>>]
          ELSE /\ errors' = <<newRecord(error)>> \o errors
               /\ pc' = "unshifted"
               /\ pending' = [incoming |-> <<incoming>>, ws |-> ws,
                              record |-> <<newRecord(error)>>,
                              expected |-> <<expected>>]
    /\ Inside("addError")
    /\ UNCHANGED <<patterns, insights>>

\* lines 40-42
ErrorTrim ==
    /\ pc = "unshifted"
    /\ errors' = IF Len(errors) > maxErrors THEN SubSeq(errors, 1, maxErrors)
                 ELSE errors
    /\ pc' = "trimmed"
    /\ UNCHANGED <<patterns, insights, pending>>
    /\ Inside("trim")

\* lines 130-137
ErrorPatterns ==
    /\ pc = "trimmed"
    /\ patterns' = setPattern(patterns, pending.record[1])
    /\ pc' = "patterned"
    /\ UNCHANGED <<errors, insights, pending>>
    /\ Inside("updatePatterns")

\* line 140
ErrorInsights ==
    /\ pc = "patterned"
    /\ insights' = generateInsights(errors, patterns, now)
    /\ pc' = "added"
    /\ UNCHANGED <<errors, patterns, pending>>
    /\ Inside("generateInsights")

\* addError has returned: lines 678-687 of handleError
ErrorEnd ==
    /\ pc = "added"
    /\ pc' = "idle"
    /\ agents' = countError(agents, pending.incoming[1].serverId, now)
    /\ returned' = pending.record
    /\ occurrences' = counted(errors, pending.incoming[1])
    /\ outbox' = broadcast("newError", pending.record)
                 \o broadcast("errors", slice(errors, RecentLimit))
                 \o broadcast("insights", insights)
    /\ steps' = steps + 1
    /\ call' = [op |-> "error", serverId |-> pending.incoming[1].serverId,
                link |-> pending.ws, arg |-> pending.incoming]
    /\ response' = NoResponse
    /\ UNCHANGED <<storeVars, now, links, clients, readyState, pending, tailVars,
                   agentVars>>

\* the error frames of three sources
AtomicErrors ==
    { [serverId |-> src.serverId, serverName |-> serverNameOf(src.serverId),
       logFile |-> src.logFile, errorMessage |-> <<"Database", "timeout", "42">>,
       timestamp |-> NoTs] : src \in StoreSources }

AtomicNext ==
    \/ AgentConnect
    \/ \E incoming \in AtomicErrors : ErrorBegin(incoming, "t1")
    \/ ErrorTrim
    \/ ErrorPatterns
    \/ ErrorInsights
    \/ ErrorEnd
    \/ Subscribe("d1")
    \/ \E pathname \in {"/api/errors", "/api/insights", "/api/health"} :
          handleAPI(pathname, << >>, NoLimit)

SpecAtomic == Init /\ [][AtomicNext]_vars

-----------------------------------------------------------------------------
(* The agent port alone, with agents that also send malformed frames *)

FramesNext ==
    \/ AgentConnect
    \/ \E ws \in Links, serverId \in ServerIds : registerAgent(serverId, ws)
    \/ \E ws \in Links, incoming \in HubErrors : handleError(incoming, ws)
    \/ \E ws \in Links, frame \in MalformedFrames : onMessage(frame, ws)
    \/ \E ws \in Links : AgentClose(ws)

SpecFrames == Init /\ [][FramesNext]_vars

-----------------------------------------------------------------------------
(* The agent's FileTailer on one file, with the writers of the file.  A byte
   is "o" (written before the tailer started), "a" or "b" (written after), or
   "nl" (the newline). *)

RECURSIVE split(_)
\* content.split('\n')
split(content) ==
    LET at == {i \in DOMAIN content : content[i] = "nl"}
        i == CHOOSE j \in at : \A k \in at : j <= k
    IN IF at = {} THEN <<content>>
       ELSE <<SubSeq(content, 1, i - 1)>> \o split(SubSeq(content, i + 1, Len(content)))

\* lines 1035-1036: the fragments readNewLines hands to the callback
linesOf(content) ==
    LET nonBlank(line) == line # << >>
    IN SelectSeq(split(content), nonBlank)

\* mutant: the tailer starts at the beginning of the file
startPositionZero(size) == 0

\* line 998: the cursor start() sets for a file of this size
startPosition(size) == size

\* stats.size of the file, as the stat watcher sees it: 0 for a missing file
sizeOf(f) == IF f.exists THEN Len(f.content) ELSE 0

\* mutant: a filesystem error schedules nothing
scheduleNothing(t) == t

\* scheduleRetry() (lines 1047-1056): the one timer of the tailer is set anew
scheduleRetry(t) == [t EXCEPT !.retry = TRUE, !.delay = RetryDelay]

\* mutant: stop() marks the tailer and releases nothing
stopRunning(t) == [t EXCEPT !.running = FALSE]

\* stop() (lines 1058-1062): the timer is cleared, the listeners of the path
\* are removed
stop(t) == [t EXCEPT !.running = FALSE, !.retry = FALSE, !.watching = FALSE]

\* a step of the agent's tailer or of a writer: the server is not involved
TailStep(op) ==
    /\ call' = [NoCall EXCEPT !.op = op]
    /\ UNCHANGED <<storeVars, now, hubVars, returned, outbox, response, occurrences,
                   stepVars, agentVars>>

\* start() (lines 992-1005) with watch() (lines 1007-1020), for a tailer in
\* state t.  A second fs.watchFile on the path adds a listener to the stat
\* watcher that exists; the listeners all call readNewLines, and after the
\* first call the others find nothing to read
start(t) ==
    IF ~file.exists
    THEN /\ tailer' = scheduleRetry([t EXCEPT !.running = TRUE])
         /\ UNCHANGED <<stat, written>>
    ELSE /\ tailer' = [t EXCEPT !.running = TRUE, !.watching = TRUE,
                                !.position = startPosition(Len(file.content))]
         /\ stat' = IF t.watching THEN stat
                    ELSE [prev |-> Len(file.content), curr |-> << >>]
         /\ written' = IF written.started THEN written
                       ELSE [written EXCEPT !.started = TRUE, !.steady = TRUE]

\* the agent starts the tailer
TailStart ==
    /\ ~tailer.running
    /\ steps < MaxTailSteps
    /\ steps' = steps + 1
    /\ start(tailer)
    /\ TailStep("start")
    /\ UNCHANGED <<file, delivered>>

\* the timer of scheduleRetry fires (lines 1050-1055)
RetryTimer ==
    /\ tailer.retry
    /\ IF tailer.running
       THEN start([tailer EXCEPT !.retry = FALSE])
       ELSE /\ tailer' = [tailer EXCEPT !.retry = FALSE]
            /\ UNCHANGED <<stat, written>>
    /\ TailStep("retry")
    /\ UNCHANGED <<file, delivered, steps>>

\* the stat watcher polls the file (interval 500, line 1011) and finds it
\* changed
Poll ==
    /\ tailer.watching
    /\ stat.curr = << >>
    /\ sizeOf(file) # stat.prev
    /\ stat' = [stat EXCEPT !.curr = <<sizeOf(file)>>]
    /\ TailStep("poll")
    /\ UNCHANGED <<tailer, file, delivered, written, steps>>

\* the listener of line 1011 is called with (curr, prev); readNewLines (lines
\* 1022-1045) when the file has grown
Listener ==
    /\ stat.curr # << >>
    /\ stat' = [prev |-> stat.curr[1], curr |-> << >>]
    /\ IF stat.curr[1] > stat.prev
       THEN IF ~file.exists
            THEN /\ tailer' = scheduleRetry(tailer)
                 /\ UNCHANGED delivered
            ELSE IF Len(file.content) <= tailer.position
            THEN UNCHANGED <<tailer, delivered>>
            ELSE /\ delivered' =
                       delivered \o linesOf(SubSeq(file.content, tailer.position + 1,
                                                   Len(file.content)))
                 /\ tailer' = [tailer EXCEPT !.position = Len(file.content)]
       ELSE UNCHANGED <<tailer, delivered>>
    /\ TailStep("change")
    /\ UNCHANGED <<file, written, steps>>

\* stop() (lines 1058-1062)
TailStop ==
    /\ tailer.running
    /\ steps < MaxTailSteps
    /\ steps' = steps + 1
    /\ tailer' = stop(tailer)
    /\ stat' = IF tailer'.watching THEN stat ELSE [stat EXCEPT !.curr = << >>]
    /\ written' = [written EXCEPT !.steady = FALSE]
    /\ TailStep("stop")
    /\ UNCHANGED <<file, delivered>>

\* what a writer appends with one write
Chunks == {<<"a">>, <<"b", "nl">>, <<"nl">>}

\* a writer appends to the file
Write(chunk) ==
    /\ file.exists
    /\ steps < MaxTailSteps
    /\ steps' = steps + 1
    /\ file' = [file EXCEPT !.content = @ \o chunk]
    /\ written' = IF written.started
                  THEN [written EXCEPT !.appended = @ \o chunk, !.fresh = @ \o chunk]
                  ELSE written
    /\ TailStep("write")
    /\ UNCHANGED <<tailer, stat, delivered>>

\* the file is truncated to n bytes
Truncate(n) ==
    /\ file.exists
    /\ n < Len(file.content)
    /\ steps < MaxTailSteps
    /\ steps' = steps + 1
    /\ file' = [file EXCEPT !.content = SubSeq(@, 1, n)]
    /\ written' = [written EXCEPT !.steady = FALSE,
                                  !.rotated = (n = 0) /\ written.started,
                                  !.fresh = << >>,
                                  !.mark = Len(delivered)]
    /\ TailStep("truncate")
    /\ UNCHANGED <<tailer, stat, delivered>>

\* the file is removed
Remove ==
    /\ file.exists
    /\ steps < MaxTailSteps
    /\ steps' = steps + 1
    /\ file' = [exists |-> FALSE, content |-> << >>]
    /\ written' = [written EXCEPT !.steady = FALSE, !.rotated = FALSE, !.fresh = << >>]
    /\ TailStep("remove")
    /\ UNCHANGED <<tailer, stat, delivered>>

\* a new, empty file is created under the path
Create ==
    /\ ~file.exists
    /\ steps < MaxTailSteps
    /\ steps' = steps + 1
    /\ file' = [exists |-> TRUE, content |-> << >>]
    /\ written' = [written EXCEPT !.rotated = written.started, !.fresh = << >>,
                                  !.mark = Len(delivered)]
    /\ TailStep("create")
    /\ UNCHANGED <<tailer, stat, delivered>>

\* the file before the tailer is started: missing, empty, or with a line
InitTail ==
    /\ InitServer
    /\ maxErrors = DefaultMaxErrors
    /\ NewTailer
    /\ NoAgent
    /\ file \in { [exists |-> FALSE, content |-> << >>],
                  [exists |-> TRUE, content |-> << >>],
                  [exists |-> TRUE, content |-> <<"o", "nl">>],
                  [exists |-> TRUE, content |-> <<"o", "nl", "o">>] }

TailNext ==
    \/ TailStart
    \/ RetryTimer
    \/ Poll
    \/ Listener
    \/ TailStop
    \/ \E chunk \in Chunks : Write(chunk)
    \/ \E n \in 0..2 : Truncate(n)
    \/ Remove
    \/ Create

SpecTail == InitTail /\ [][TailNext]_vars

\* the tailer on a file that comes and goes, with one kind of write
RetryNext ==
    \/ TailStart
    \/ RetryTimer
    \/ Poll
    \/ Listener
    \/ TailStop
    \/ Write(<<"b", "nl">>)
    \/ Remove
    \/ Create

\* the tailer with its timers: a timer that is set fires (setTimeout, line
\* 1050), the stat watcher polls (interval 500, line 1011) and reports what
\* it has seen
SpecTailFair ==
    /\ InitTail
    /\ [][RetryNext]_vars
    /\ WF_vars(RetryTimer) /\ WF_vars(Poll) /\ WF_vars(Listener)

-----------------------------------------------------------------------------
(* SmartLogParser.parse on every line and type of the model *)

\* no line has been parsed
NoParsed ==
    [line |-> << >>, type |-> None, raised |-> FALSE, event |-> NoEvent,
     sendStats |-> FALSE]

InitParse ==
    /\ InitServer
    /\ maxErrors = DefaultMaxErrors
    /\ NoTailer
    /\ logScopeAgent = None
    /\ sockets = << >>
    /\ parsed = NoParsed

\* parser.parse(line, logFile)
Parse(line, type) ==
    /\ parsed' = [line |-> line, type |-> type,
                  raised |-> parseTable[line][type].raised,
                  event |-> parseTable[line][type].event, sendStats |-> FALSE]
    /\ call' = [NoCall EXCEPT !.op = "parse"]
    /\ UNCHANGED <<storeVars, now, hubVars, returned, outbox, response, steps,
                   occurrences, stepVars, tailVars, logScopeAgent, sockets>>

ParseNext == \E line \in Lines, type \in LogTypes : Parse(line, type)

SpecParse == InitParse /\ [][ParseNext]_vars

-----------------------------------------------------------------------------
(* SmartLogParser.calculateUrgency called with a level, a feature vector and
   a message, as the test suite calls it *)

\* the levels normalizeLevel returns, EMERG for one it passes through
UrgencyLevels == {"ERROR", "WARN", "INFO", "DEBUG", "EMERG"}

\* the feature vectors: the six features calculateUrgency reads take every
\* value, the three it does not read are absent (falsy)
UrgencySemantics ==
    {[hasIpAddress |-> FALSE, hasUrl |-> FALSE, hasTimestamp |-> FALSE,
      hasStatusCode |-> sc, hasDatabase |-> db, hasNetwork |-> nw, hasAuth |-> au,
      hasMemory |-> mem, hasSecurity |-> sec] :
        sc \in BOOLEAN, db \in BOOLEAN, nw \in BOOLEAN, au \in BOOLEAN,
        mem \in BOOLEAN, sec \in BOOLEAN}

UrgencyMessages ==
    { <<"CRITICAL:", "Authentication", "system", "failed">>,
      <<"FATAL:", "disk", "failure">>,
      <<"API", "timeout">>,
      <<"Database", "timeout", "failed", "FATAL">>,
      <<"user", "login", "ok">> }

InitUrgency ==
    /\ InitServer
    /\ maxErrors = DefaultMaxErrors
    /\ NoTailer
    /\ logScopeAgent = None
    /\ sockets = << >>
    /\ parsed \in [level : UrgencyLevels, semantics : UrgencySemantics,
                    message : UrgencyMessages, urgency : {0}]

\* result.urgency = this.calculateUrgency(result)
Urgency ==
    /\ call.op # "calculateUrgency"
    /\ parsed' = [parsed EXCEPT !.urgency = calculateUrgency(parsed.level,
                                                             parsed.semantics,
                                                             parsed.message)]
    /\ call' = [NoCall EXCEPT !.op = "calculateUrgency"]
    /\ UNCHANGED <<storeVars, now, hubVars, returned, outbox, response, steps,
                   occurrences, stepVars, tailVars, logScopeAgent, sockets>>

UrgencyNext == Urgency

SpecUrgency == InitUrgency /\ [][UrgencyNext]_vars

-----------------------------------------------------------------------------
(* LogScopeAgent: one agent with its transport, its reconnect timers and the
   tailer of one log file of type auto.  The agent is started once. *)

\* the configurations given to the constructor: every key is optional
Configs ==
    { [serverId |-> "s1"],
      [serverId |-> "s1", reconnectDelay |-> 20000],
      [serverId |-> "s1", reconnectDelay |-> 40000],
      [serverId |-> "s1", reconnectDelay |-> 70000],
      [serverId |-> "s1", maxReconnectAttempts |-> 0],
      [serverId |-> "s1", maxReconnectAttempts |-> 1],
      [serverId |-> "s1", maxReconnectAttempts |-> 2],
      [serverId |-> "s1", reconnectDelay |-> 40000, maxReconnectAttempts |-> 2],
      [serverId |-> "s1", statsInterval |-> 2],
      [serverId |-> "s1", statsInterval |-> 3, maxReconnectAttempts |-> 1] }

\* mergeDefaults(config) (lines 1077-1088): a key of config overrides the
\* default, whatever its value
mergeDefaults(config) ==
    [serverId |-> config.serverId,
     statsInterval |-> IF "statsInterval" \in DOMAIN config
                       THEN config.statsInterval ELSE DefaultStatsInterval,
     reconnectDelay |-> IF "reconnectDelay" \in DOMAIN config
                        THEN config.reconnectDelay ELSE DefaultReconnectDelay,
     maxReconnectAttempts |-> IF "maxReconnectAttempts" \in DOMAIN config
                              THEN config.maxReconnectAttempts
                              ELSE DefaultMaxReconnectAttempts]

\* the constructor (lines 1067-1075).  timers are the delays of the reconnect
\* timers that are set; starting tells where start() stands: "no" before the
\* call, "waiting" at await this.connect(), "done" after startMonitoring,
\* "rejected" when connect() has rejected.  consecutive and lastDelay are
\* history: the reconnects scheduled since the transport last opened, and the
\* delay of the last of them
NewAgent(config) ==
    [config |-> mergeDefaults(config), running |-> FALSE, reconnectAttempts |-> 0,
     stats |-> [errors |-> 0, warnings |-> 0, success |-> 0, totalLines |-> 0],
     ws |-> 0, timers |-> << >>, starting |-> "no",
     consecutive |-> 0, lastDelay |-> 0]

\* new WebSocket(url) (line 1138)
NewSocket == [readyState |-> "CONNECTING", aborted |-> FALSE, sent |-> << >>]

\* a frame, with the number of the line it was sent for
Frame(type, line) == [type |-> type, line |-> line]

\* mutant: send does not look at readyState
sendUnchecked(a, socks, frame) ==
    IF a.ws # 0 THEN [socks EXCEPT ![a.ws].sent = Append(@, frame)] ELSE socks

\* send(data) (lines 1293-1301): the sockets after the call
send(a, socks, frame) ==
    IF a.ws # 0 /\ socks[a.ws].readyState = "OPEN"
    THEN [socks EXCEPT ![a.ws].sent = Append(@, frame)]
    ELSE socks

\* mutant: nothing is sent when the transport opens
registerNothing(a, socks) == socks

\* register() (lines 1183-1201)
register(a, socks) == send(a, socks, Frame("register", 0))

\* 2^n
RECURSIVE pow2(_)
pow2(n) == IF n = 0 THEN 1 ELSE 2 * pow2(n - 1)

\* Math.min
min(x, y) == IF x < y THEN x ELSE y

\* mutant: the attempt counter is kept when the transport opens
keepAttempts(a) == a

\* line 1142: this.reconnectAttempts = 0
resetAttempts(a) == [a EXCEPT !.reconnectAttempts = 0]

\* scheduleReconnect() (lines 1163-1181): the agent after the call
scheduleReconnect(a) ==
    IF a.config.maxReconnectAttempts > 0
       /\ a.reconnectAttempts >= a.config.maxReconnectAttempts
    THEN a
    ELSE LET delay == min(a.config.reconnectDelay * pow2(a.reconnectAttempts),
                          MaxReconnectDelay)
         IN [a EXCEPT !.reconnectAttempts = @ + 1,
                      !.timers = Append(@, delay),
                      !.consecutive = @ + 1,
                      !.lastDelay = delay]

\* mutant: the close handler schedules nothing
onCloseIdle(a) == a

\* the close handler (lines 1147-1150)
onClose(a) == IF a.running THEN scheduleReconnect(a) ELSE a

\* the error handler (lines 1152-1155): connect() rejects, and start() with
\* it, when no reconnect is counted
onError(a) ==
    IF a.reconnectAttempts = 0 /\ a.starting = "waiting"
    THEN [a EXCEPT !.starting = "rejected"]
    ELSE a

\* mutant: the timer connects whether the agent runs or not
timerConnectsAlways(a) == TRUE

\* line 1175: if (this.running)
timerConnects(a) == a.running

\* a step of the agent: the server is not involved, the file is left alone
AgentStep(op) ==
    /\ steps < MaxAgentEvents
    /\ steps' = steps + 1
    /\ call' = [NoCall EXCEPT !.op = op]
    /\ UNCHANGED <<storeVars, now, hubVars, returned, outbox, response, occurrences,
                   stepVars, file, delivered>>

\* agent.start() (lines 1119-1133) up to await this.connect(), with the
\* synchronous part of connect() (lines 1135-1161)
AgentStart ==
    /\ logScopeAgent.starting = "no"
    /\ sockets' = Append(sockets, NewSocket)
    /\ logScopeAgent' = [logScopeAgent EXCEPT !.running = TRUE, !.starting = "waiting",
                                              !.ws = Len(sockets) + 1]
    /\ AgentStep("agentStart")
    /\ UNCHANGED <<tailer, stat, written, parsed>>

\* 'open' on socket k: the open handler (lines 1140-1145); resolve() lets
\* start() go on with startMonitoring (lines 1203-1219), which starts a tailer
\* for the log file if the file exists
onOpen(k) ==
    /\ sockets[k].readyState = "CONNECTING"
    /\ sockets' = register(logScopeAgent, [sockets EXCEPT ![k].readyState = "OPEN"])
    /\ logScopeAgent' =
           [resetAttempts(logScopeAgent) EXCEPT
               !.starting = IF @ = "waiting" THEN "done" ELSE @,
               !.consecutive = 0, !.lastDelay = 0]
    /\ IF logScopeAgent.starting = "waiting" /\ file.exists
       THEN start(tailer)
       ELSE UNCHANGED <<tailer, stat, written>>
    /\ UNCHANGED parsed

SocketOpen(k) == onOpen(k) /\ AgentStep("open")

\* the connection of socket k fails: 'error', then 'close'
SocketFail(k) ==
    /\ sockets[k].readyState = "CONNECTING"
    /\ sockets' = [sockets EXCEPT ![k].readyState = "CLOSED"]
    /\ logScopeAgent' = onClose(onError(logScopeAgent))
    /\ AgentStep("fail")
    /\ UNCHANGED <<tailer, stat, written, parsed>>

\* 'close' on socket k: the server or the network has closed the transport,
\* or the closing the agent asked for is done; a handshake that close() has
\* aborted emits 'error' before 'close'
SocketClose(k) ==
    /\ sockets[k].readyState \in {"OPEN", "CLOSING"}
    /\ sockets' = [sockets EXCEPT ![k].readyState = "CLOSED"]
    /\ logScopeAgent' = onClose(IF sockets[k].aborted THEN onError(logScopeAgent)
                                ELSE logScopeAgent)
    /\ AgentStep("close")
    /\ UNCHANGED <<tailer, stat, written, parsed>>

\* a reconnect timer fires (lines 1174-1180): connect() again
onTimer ==
    /\ logScopeAgent.timers # << >>
    /\ IF timerConnects(logScopeAgent)
       THEN /\ sockets' = Append(sockets, NewSocket)
            /\ logScopeAgent' = [logScopeAgent EXCEPT !.timers = Tail(@),
                                                      !.ws = Len(sockets) + 1]
       ELSE /\ sockets' = sockets
            /\ logScopeAgent' = [logScopeAgent EXCEPT !.timers = Tail(@)]
    /\ UNCHANGED <<tailer, stat, written, parsed>>

ReconnectTimer == onTimer /\ AgentStep("timer")

\* WebSocket close(): an open socket starts closing, a handshake is aborted
close(socket) ==
    CASE socket.readyState = "OPEN" -> [socket EXCEPT !.readyState = "CLOSING"]
      [] socket.readyState = "CONNECTING" ->
            [socket EXCEPT !.readyState = "CLOSING", !.aborted = TRUE]
      [] OTHER -> socket

\* agent.stop() (lines 1303-1314)
AgentStop ==
    /\ logScopeAgent.running
    /\ logScopeAgent' = [logScopeAgent EXCEPT !.running = FALSE]
    /\ tailer' = stop(tailer)
    /\ stat' = [stat EXCEPT !.curr = << >>]
    /\ written' = [written EXCEPT !.steady = FALSE]
    /\ sockets' = IF logScopeAgent.ws # 0
                  THEN [sockets EXCEPT ![logScopeAgent.ws] = close(@)]
                  ELSE sockets
    /\ AgentStep("agentStop")
    /\ UNCHANGED parsed

\* the type of the log file the agent tails
LogFileType == "auto"

\* the lines the tailer hands to its callback: level ERROR, WARN, INFO, and a
\* line on which parse raises
AgentLines == {GenericLine, IsoLine, PlainLine, JsonNumberMessageLine}

\* lines 1229-1236: the counters after a line of this level
countLevel(stats, level) ==
    CASE level = "ERROR" -> [stats EXCEPT !.errors = @ + 1]
      [] level = "WARN" -> [stats EXCEPT !.warnings = @ + 1]
      [] OTHER -> [stats EXCEPT !.success = @ + 1]

\* the tailer's callback: processLogLine(line, logFile) (lines 1221-1246) with
\* sendError (lines 1248-1268) and sendStats (lines 1280-1291).  An exception
\* of parse is caught at line 1243, after the line has been counted
processLogLine(line) ==
    LET r == parseTable[line][LogFileType]
        n == logScopeAgent.stats.totalLines + 1
        withLine == [logScopeAgent EXCEPT !.stats.totalLines = n]
        a == [withLine EXCEPT !.stats = countLevel(@, r.event.level)]
        afterError == IF r.event.level = "ERROR" /\ ~(r.event.urgency < 5)
                      THEN send(a, sockets, Frame("error", n))
                      ELSE sockets
        statsDue == n % a.config.statsInterval = 0
    IN /\ tailer.running
       /\ tailer.watching
       /\ IF r.raised
          THEN /\ logScopeAgent' = withLine
               /\ sockets' = sockets
          ELSE /\ logScopeAgent' = a
               /\ sockets' = IF statsDue THEN send(a, afterError, Frame("stats", n))
                             ELSE afterError
       /\ parsed' = [line |-> line, type |-> LogFileType, raised |-> r.raised,
                     event |-> r.event, sendStats |-> ~r.raised /\ statsDue]
       /\ AgentStep("line")
       /\ UNCHANGED <<tailer, stat, written>>

\* the agent after its constructor, beside a log file that exists
InitAgent ==
    /\ InitServer
    /\ maxErrors = DefaultMaxErrors
    /\ NewTailer
    /\ file = [exists |-> TRUE, content |-> << >>]
    /\ \E config \in Configs : logScopeAgent = NewAgent(config)
    /\ sockets = << >>
    /\ parsed = NoParsed

AgentNext ==
    \/ AgentStart
    \/ \E k \in DOMAIN sockets : SocketOpen(k)
    \/ \E k \in DOMAIN sockets : SocketFail(k)
    \/ \E k \in DOMAIN sockets : SocketClose(k)
    \/ ReconnectTimer
    \/ AgentStop
    \/ \E line \in AgentLines : processLogLine(line)

SpecAgent == InitAgent /\ [][AgentNext]_vars

\* a callback of the agent that the network or a timer of the agent brings
\* about: it is not counted with the events
AgentCallback(op) ==
    /\ call' = [NoCall EXCEPT !.op = op]
    /\ UNCHANGED <<storeVars, now, hubVars, returned, outbox, response, occurrences,
                   stepVars, file, delivered, steps>>

\* the server accepts the connection of socket k
Accept(k) == onOpen(k) /\ AgentCallback("open")

\* a reconnect timer fires
TimerFires == onTimer /\ AgentCallback("timer")

AcceptSome == \E k \in DOMAIN sockets : Accept(k)

FairNext ==
    \/ AgentStart
    \/ AcceptSome
    \/ \E k \in DOMAIN sockets : SocketFail(k)
    \/ \E k \in DOMAIN sockets : SocketClose(k)
    \/ TimerFires
    \/ AgentStop

\* the agent with its timers and a server that ends up accepting: a timer
\* that is set fires (setTimeout, line 1174), connections fail and transports
\* close MaxAgentEvents times at most, and a connection that can be accepted
\* is accepted
SpecAgentFair ==
    /\ InitAgent
    /\ [][FairNext]_vars
    /\ WF_vars(TimerFires) /\ WF_vars(AcceptSome)

-----------------------------------------------------------------------------
(* Properties *)

\* the timestamp addError gives an incoming error
EffectiveTs(incoming) == IF incoming.timestamp = NoTs THEN now ELSE incoming.timestamp

\* the indices of the stored errors with the fingerprint of e
Stored(errs, e) == {i \in DOMAIN errs : Fingerprint(errs[i]) = Fingerprint(e)}

\* C1: after any sequence of addError calls, overflowing ones included, no
\* two stored errors have the same fingerprint
\* (serverId, logFile, normalize(errorMessage)).
C1_FingerprintUnique ==
    \A i, j \in DOMAIN errors :
        i # j => Fingerprint(errors[i]) # Fingerprint(errors[j])

\* a full store that has merged a repeated error and holds the same normalized
\* message from two sources
C1_Witness ==
    /\ call.op = "addError"
    /\ Len(errors) = maxErrors
    /\ \E i \in DOMAIN errors : errors[i].count > 1
    /\ \E i, j \in DOMAIN errors :
          /\ i # j
          /\ normalized[errors[i].errorMessage] = normalized[errors[j].errorMessage]

\* C2: the list never holds more than maxErrors records; an addError of a
\* new fingerprint puts the new record at the head and keeps the others in
\* their order, and when the list was full it is the last record (the one
\* inserted earliest) that is discarded.
C2_BoundedOldestDiscarded ==
    [][/\ Len(errors') <= maxErrors'
       /\ (call'.op = "addError" /\ Stored(errors, call'.arg[1]) = {})
          => /\ Tail(errors') =
                   IF Len(errors) < maxErrors THEN errors
                   ELSE SubSeq(errors, 1, Len(errors) - 1)
             /\ Fingerprint(errors'[1]) = Fingerprint(call'.arg[1])]_vars

RECURSIVE inserted(_)
\* the number of records ever created, from the pattern table
inserted(pats) == IF pats = << >> THEN 0 ELSE pats[1].count + inserted(Tail(pats))

\* a full list from which a record has been discarded
C2_Witness ==
    /\ call.op = "addError"
    /\ Len(errors) = maxErrors
    /\ inserted(patterns) > maxErrors

\* C3: addError merges under the fingerprint: for a stored fingerprint it
\* returns the stored record with count one larger and lastSeen the incoming
\* timestamp, and changes nothing else in the list; otherwise it puts at the
\* head a new record with count 1, firstSeen = lastSeen and trend new.  The
\* count of a record is the number of addError calls with its fingerprint
\* since the record was created.
C3_MergeUnderFingerprint ==
    [][call'.op = "addError" =>
        LET incoming == call'.arg[1]
            hits == Stored(errors, incoming)
        IN /\ hits # {} =>
                \E k \in hits :
                   /\ Len(errors') = Len(errors)
                   /\ \A i \in DOMAIN errors : i # k => errors'[i] = errors[i]
                   /\ returned' = <<errors'[k]>>
                   /\ errors'[k] = [errors[k] EXCEPT
                                       !.count = errors[k].count + 1,
                                       !.lastSeen = EffectiveTs(incoming),
                                       !.trend = errors'[k].trend]
           /\ hits = {} =>
                /\ returned' = <<errors'[1]>>
                /\ Fingerprint(errors'[1]) = Fingerprint(incoming)
                /\ errors'[1].count = 1
                /\ errors'[1].firstSeen = errors'[1].lastSeen
                /\ errors'[1].lastSeen = EffectiveTs(incoming)
                /\ errors'[1].trend = "new"
           /\ \A i \in DOMAIN errors' :
                errors'[i].count = occurrences'[Fingerprint(errors'[i])]]_vars

\* a record merged once, behind a record created after it
C3_Witness ==
    /\ call.op = "addError"
    /\ Len(errors) = 2
    /\ errors[2].count = 2
    /\ returned = <<errors[2]>>

\* C4: after every addError call, merge or not, the insight list is the first
\* five insights the generation rules give on the error list and the pattern
\* table as the call leaves them.
C4_InsightsRederived ==
    call.op = "addError" => insights = generateInsights(errors, patterns, now)

\* C5: every stored error has firstSeen <= lastSeen and count >= 1.
C5_SeenOrdered ==
    \A i \in DOMAIN errors :
        errors[i].firstSeen <= errors[i].lastSeen /\ errors[i].count >= 1

\* C6: when the close of a transport is handled, every record bound to that
\* transport goes offline and its lastSeen is set.
C6_ClosedOffline ==
    [][call'.op = "close" =>
        \A i \in DOMAIN agents :
            agents[i].ws = call'.link =>
                agents'[i].status = "offline" /\ agents'[i].lastSeen = now]_vars

\* C7: an offline record holds no transport handle, and the list GET
\* /api/servers returns holds none.
C7_NoHandleOffline ==
    /\ \A i \in DOMAIN agents : agents[i].status = "offline" => agents[i].ws = None
    /\ call.op = "/api/servers" =>
          \A i \in DOMAIN response.body : response.body[i].ws = None

\* C8: the close of a transport changes nothing but status and lastSeen of a
\* record bound to it: the records stay, with their counters, the other
\* records and the store are unchanged.  No event removes a record.
C8_CloseFrame ==
    [][/\ call'.op = "close" =>
            /\ Len(agents') = Len(agents)
            /\ \A i \in DOMAIN agents :
                  \/ agents'[i] = agents[i]
                  \/ /\ agents[i].ws = call'.link
                     /\ agents'[i] = [agents[i] EXCEPT
                                         !.status = agents'[i].status,
                                         !.lastSeen = agents'[i].lastSeen]
            /\ UNCHANGED storeVars
       /\ \A i \in DOMAIN agents :
             \E j \in DOMAIN agents' : agents'[j].serverId = agents[i].serverId]_vars

\* an agent that reported an error went offline beside another agent
C8_Witness ==
    /\ call.op = "close"
    /\ Len(agents) = 2
    /\ Len(errors) > 0
    /\ \E i \in DOMAIN agents :
          agents[i].status = "offline" /\ agents[i].errorCount > 0

\* C9: after a register for serverId S on transport T the map holds exactly
\* one record for S, online and bound to T, and every open dashboard socket
\* is sent a servers frame with the agent list.
C9_RegisterBinds ==
    [][call'.op = "register" =>
        LET mine == {i \in DOMAIN agents' : agents'[i].serverId = call'.serverId}
        IN /\ Cardinality(mine) = 1
           /\ \A i \in mine :
                 agents'[i].status = "online" /\ agents'[i].ws = call'.link
           /\ \A c \in Clients :
                 readyState[c] = "OPEN" =>
                    \E f \in DOMAIN outbox' :
                       outbox'[f] = [to |-> c, type |-> "servers", data |-> agents']]_vars

\* s1, registered before s2 on the first transport, has registered again on a
\* later transport
C9_Witness ==
    /\ call = [op |-> "register", serverId |-> "s1", link |-> "t2", arg |-> << >>]
    /\ Len(agents) = 2
    /\ agents[1].serverId = "s1"
    /\ agents[2].ws = "t1"

\* the warnings and success values the agents reported last
Reported(ags, field) ==
    [i \in DOMAIN ags |->
        [n |-> IF ags[i].assigned = << >> THEN 0 ELSE ags[i].assigned[1][field]]]

\* C10: GET /api/stats returns as totalWarnings and totalSuccess the sums of
\* the warnings and success values the agents reported last.
C10_StatsSummed ==
    call.op = "/api/stats" =>
        /\ response.body[1].totalWarnings = sum(Reported(agents, "warnings"), "n")
        /\ response.body[1].totalSuccess = sum(Reported(agents, "success"), "n")

\* C11: a malformed agent frame (not JSON, unknown type, data absent or
\* without serverId or errorMessage) changes neither the agent map nor the
\* error list, the pattern table or the insight list, and leaves the
\* transport open.
C11_MalformedIgnored ==
    [][(\/ call'.op = "message"
        \/ call'.op \in {"register", "error", "stats"} /\ call'.serverId = None)
       => UNCHANGED <<agents, errors, patterns, insights, links>>]_vars
\* C12: addError with the pattern update and the insight recomputation is
\* atomic for the readers: what a REST response, a broadcast or a subscribe
\* snapshot is taken from is never a list longer than maxErrors, a list with
\* an error that has no pattern entry, or anything but the store as the last
\* complete addError call left it.
C12_AtomicReads ==
    [][(response' # NoResponse \/ outbox' # << >>) =>
          /\ Len(errors') <= maxErrors
          /\ \A i \in DOMAIN errors' :
                \E j \in DOMAIN patterns' :
                   patterns'[j].pattern = normalized[errors'[i].errorMessage]
          /\ pending'.expected # << >> =>
                /\ errors' = pending'.expected[1].errors
                /\ patterns' = pending'.expected[1].patterns
                /\ insights' = pending'.expected[1].insights]_vars

\* a dashboard is sent the list after an addError that discarded a record
C12_Witness ==
    /\ call.op = "error"
    /\ outbox # << >>
    /\ Len(errors) = maxErrors
    /\ inserted(patterns) > maxErrors

\* C13: a REST request, whatever its path, q and limit, leaves the agent map,
\* the error list, the pattern table and the insight list as they are.
C13_RestReadOnly ==
    [][call'.op \in Pathnames =>
          UNCHANGED <<agents, errors, patterns, insights>>]_vars

\* a search request with a query, answered from a store that holds errors
C13_Witness ==
    /\ call.op = "/api/errors"
    /\ call.arg[1] # << >>
    /\ response.status = 200
    /\ response.body # << >>
    /\ agents # << >>

\* TRUE when the query holds one of the cue words
hasCue(query) ==
    \E cue \in {"critical", "urgent", "database", "db", "timeout", "new", "recent",
                "server"} : includes(toLowerCase(query), <<cue>>)

\* what the request of the last event is to return from the list found
Answer(found) == slice(slice(found, SearchLimit), limitOf(call.arg[2]))

\* C14: for a non-empty q without cue, search returns without fault the stored
\* errors whose errorMessage, serverName or category contains q, in store
\* order, at most 100 of them.
C14_TextSearch ==
    (call.op = "/api/errors" /\ call.arg[1] # << >> /\ ~hasCue(call.arg[1])) =>
        LET q == toLowerCase(call.arg[1])
            holds(e) == \/ includes(toLowerCase(e.errorMessage), q)
                        \/ includes(toLowerCase(<<e.serverName>>), q)
                        \/ includes(categoryWords(e.category), q)
        IN /\ response.status = 200
           /\ response.body = Answer(SelectSeq(errors, holds))

\* C15: for a q with cues, search returns the stored errors that satisfy all
\* the cue filters (critical: severity critical; database: category Database
\* Connectivity; timeout: message contains timeout; new: trend new or
\* increasing; server W: serverId or serverName contains W), in store order,
\* at most 100 of them.
C15_CueSearch ==
    (call.op = "/api/errors" /\ hasCue(call.arg[1])) =>
        LET q == toLowerCase(call.arg[1])
            has(cue) == includes(q, <<cue>>)
            w == serverMatch(q)
            holds(e) ==
                /\ (has("critical") \/ has("urgent")) => e.severity = "critical"
                /\ (has("database") \/ has("db")) => e.category = "Database Connectivity"
                /\ has("timeout") => includes(toLowerCase(e.errorMessage), <<"timeout">>)
                /\ (has("new") \/ has("recent")) => e.trend \in {"new", "increasing"}
                /\ (has("server") /\ w # << >>) =>
                      \/ idIncludes(e.serverId, w[1])
                      \/ includes(toLowerCase(<<e.serverName>>), w)
        IN /\ response.status = 200
           /\ response.body = Answer(SelectSeq(errors, holds))

\* the place of the stored error e in the list
placeOf(e) == CHOOSE k \in DOMAIN errors : errors[k] = e

\* C16: GET /api/errors returns at most min(limit, 100) records for a limit
\* >= 1 and at most 50 without limit, a selection of the stored errors in
\* their order; with an empty q these are the most recent ones, 50 at most.
C16_ErrorsLimited ==
    (call.op = "/api/errors" /\ response.status = 200) =>
        LET limit == IF call.arg[2] = NoLimit THEN 50 ELSE call.arg[2]
            most == IF limit < 100 THEN limit ELSE 100
            body == response.body
        IN /\ Len(body) <= most
           /\ \A i \in DOMAIN body : \E k \in DOMAIN errors : errors[k] = body[i]
           /\ \A i \in 1..(Len(body) - 1) : placeOf(body[i]) < placeOf(body[i + 1])
           /\ call.arg[1] = << >> =>
                 body = SubSeq(errors, 1, IF Len(errors) < 50 THEN Len(errors) ELSE 50)
                     \/ (limit < 50 /\ body = SubSeq(errors, 1, limit))

\* more than 100 stored errors match and 101 are asked for: 100 are returned
C16_Witness ==
    /\ call.op = "/api/errors"
    /\ call.arg[2] = 101
    /\ Len(errors) > 100
    /\ response.status = 200
    /\ Len(response.body) = 100

\* C17: when search throws in a REST handler the request is answered with
\* status 500 and an error body, the state of the server is unchanged, and
\* the next request and the next agent message are handled.
C17_FaultAnswered ==
    [][/\ (call'.op = "/api/errors" /\ search(errors, call'.arg[1]).fault) =>
             /\ response'.status = 500
             /\ response'.body = <<[error |-> "TypeError"]>>
             /\ UNCHANGED <<storeVars, hubVars>>
       /\ response.status = 500 =>
             /\ call'.op \in Pathnames \ {"/api/errors", "/api/nothing"} =>
                    response'.status = 200
             /\ (call'.op = "/api/errors" /\ ~search(errors, call'.arg[1]).fault) =>
                    response'.status = 200
             /\ call'.op = "error" =>
                    /\ Len(errors') = Len(errors) + 1
                    /\ errors'[1].errorMessage = call'.arg[1].errorMessage]_vars

\* a request whose search threw has been answered, after other events and
\* with events to come, on a transport that is still open
C17_Witness ==
    /\ call.op = "/api/errors"
    /\ response.status = 500
    /\ errors # << >>
    /\ links["t1"] = "open"
    /\ steps > 1
    /\ steps < MaxEvents
\* the non-empty lines of text that are complete (ended by a newline)
completeLines(text) ==
    LET parts == split(text)
    IN linesOf(SubSeq(text, 1, Len(text) - Len(parts[Len(parts)])))

IsPrefix(a, b) == Len(a) <= Len(b) /\ SubSeq(b, 1, Len(a)) = a

\* C18: while the tailer runs on a file that exists and only grows, what the
\* callback has received is the lines appended since the start, whole, once
\* each and in file order, however the appends are split into writes and
\* seen by the polls.
C18_LinesWhole ==
    written.steady => IsPrefix(delivered, completeLines(written.appended))

\* TRUE when the stat watcher has reported every change of the file to a
\* tailer that is running
caughtUp ==
    /\ tailer.running
    /\ tailer.watching
    /\ ~tailer.retry
    /\ file.exists
    /\ stat.curr = << >>
    /\ stat.prev = Len(file.content)

\* C19: when the file has shrunk to nothing (truncation, rotation) the tailer
\* reads the new file from its beginning: once it has caught up its cursor is
\* the size of the file, and the lines delivered since the truncation are the
\* lines of the new file.
C19_RotationReset ==
    (caughtUp /\ written.rotated) =>
        /\ tailer.position = Len(file.content)
        /\ (written.fresh = << >> \/ written.fresh[Len(written.fresh)] = "nl") =>
              SubSeq(delivered, written.mark + 1, Len(delivered))
                  = completeLines(written.fresh)

\* C20: the first successful open sets the cursor to the size of the file,
\* and no byte that was in the file before the tailer started is ever
\* delivered to the callback.
C20_StartAtEnd ==
    [][/\ (call'.op \in {"start", "retry"} /\ file.exists /\ ~written.started) =>
             tailer'.position = Len(file.content)
       /\ \A i \in DOMAIN delivered' :
             \A j \in DOMAIN delivered'[i] : delivered'[i][j] # "o"]_vars

\* lines have been delivered from a file that still begins with the bytes it
\* held before the tailer started
C20_Witness ==
    /\ delivered # << >>
    /\ file.exists
    /\ file.content # << >>
    /\ file.content[1] = "o"
    /\ tailer.position > 2

C22_Stopped ==
    /\ [](~tailer.running => ~tailer.retry /\ ~tailer.watching /\ stat.curr = << >>)
    /\ [][~tailer.running =>
             /\ delivered' = delivered
             /\ tailer'.running => call'.op = "start"]_vars

\* stop() was called on a tailer that had never found its file and was
\* waiting for a retry
C22_Witness ==
    /\ call.op = "stop"
    /\ ~tailer.running
    /\ ~written.started
    /\ tailer.delay = 5000

\* C29: parse returns an event for every line and every type; it never
\* raises, not even for a line that is valid JSON with a message or a level
\* that is no string.
C29_ParseTotal == call.op = "parse" => ~parsed.raised

\* TRUE when the line is in the format of the parser named by type
matches(line, type) ==
    CASE type = "nginx" -> line \in {NginxLine, NginxEmergLine}
      [] type = "apache" -> line \in {ApacheLine, ApacheWarnLine}
      [] type = "json" -> line \in JsonLines \ {JsonCutLine}
      [] type = "syslog" -> line = SyslogLine
      [] OTHER -> FALSE

matchesJSON(line) ==
    line \in JsonLines \ {JsonCutLine, JsonNullLine, JsonNumberLevelLine}

C23_Backoff ==
    [][logScopeAgent'.consecutive = logScopeAgent.consecutive + 1 =>
          LET k == logScopeAgent'.consecutive
              delay == logScopeAgent'.timers[Len(logScopeAgent'.timers)]
          IN /\ Len(logScopeAgent'.timers) = Len(logScopeAgent.timers) + 1
             /\ delay = min(logScopeAgent.config.reconnectDelay * pow2(k - 1), 60000)
             /\ delay <= 60000
             /\ k > 1 => delay >= logScopeAgent.lastDelay
             /\ k = 1 => delay = min(logScopeAgent.config.reconnectDelay, 60000)]_vars

\* a reconnect is scheduled with the delay of a first attempt, after the
\* transport has opened on a reconnection that followed a failed attempt
C23_Witness ==
    /\ call.op = "close"
    /\ Len(sockets) >= 2
    /\ sockets[Len(sockets)].sent # << >>
    /\ logScopeAgent.consecutive = 1
    /\ logScopeAgent.timers = <<logScopeAgent.config.reconnectDelay>>
    /\ logScopeAgent.config.reconnectDelay = 40000

\* C24: with maxReconnectAttempts configured as m >= 0, zero included, no
\* more than m reconnects are scheduled in a row without an open in between.
C24_MaxAttempts ==
    logScopeAgent.config.maxReconnectAttempts >= 0 =>
        logScopeAgent.consecutive <= logScopeAgent.config.maxReconnectAttempts

\* C25: the first frame sent on every socket the agent opens, the first one
\* and those of the reconnections, is register; no error or stats frame comes
\* before it.
C25_RegisterFirst ==
    \A k \in DOMAIN sockets :
        /\ sockets[k].readyState = "OPEN" => sockets[k].sent # << >>
        /\ sockets[k].sent # << >> => sockets[k].sent[1].type = "register"

\* on a reconnection, an error frame has followed the register frame
C25_Witness ==
    /\ Len(sockets) >= 2
    /\ Len(sockets[Len(sockets)].sent) >= 2
    /\ sockets[Len(sockets)].sent[2].type = "error"

\* TRUE once stop() has been called
stopped == ~logScopeAgent.running /\ logScopeAgent.starting # "no"

\* C26: once stop() has been called, whatever the agent was doing, running
\* is false, the tailer is stopped, every socket is closed or closing, and
\* from then on no socket is created and no frame is sent.
C26_Stopped ==
    /\ [](stopped =>
             /\ ~tailer.running /\ ~tailer.watching /\ ~tailer.retry
             /\ \A k \in DOMAIN sockets :
                    sockets[k].readyState \in {"CLOSING", "CLOSED"})
    /\ [][stopped =>
             /\ ~logScopeAgent'.running
             /\ Len(sockets') = Len(sockets)
             /\ \A k \in DOMAIN sockets : sockets'[k].sent = sockets[k].sent]_vars

\* a reconnect timer has fired after stop()
C26_Witness ==
    /\ stopped
    /\ call.op = "timer"
    /\ logScopeAgent.timers = << >>

\* the error frames sent so far, each with its socket and its place
errorFrames(socks) ==
    {<<k, i>> \in (DOMAIN socks) \X (1..(MaxAgentEvents + 1)) :
        i \in DOMAIN socks[k].sent /\ socks[k].sent[i].type = "error"}

\* C27: a line makes the agent send one error frame when its level is ERROR,
\* its urgency is at least 5 and the transport is open at that moment, and
\* no error frame otherwise; error frames are sent at no other time.
C27_ErrorFrames ==
    [][LET isOpen == /\ logScopeAgent.ws # 0
                     /\ sockets[logScopeAgent.ws].readyState = "OPEN"
           due == /\ call'.op = "line"
                  /\ ~parsed'.raised
                  /\ parsed'.event.level = "ERROR"
                  /\ parsed'.event.urgency >= 5
                  /\ isOpen
           new == errorFrames(sockets') \ errorFrames(sockets)
       IN /\ errorFrames(sockets) \subseteq errorFrames(sockets')
          /\ Cardinality(new) = IF due THEN 1 ELSE 0
          /\ \A f \in new :
                 /\ f[1] = logScopeAgent.ws
                 /\ sockets'[f[1]].sent[f[2]].line = logScopeAgent'.stats.totalLines]_vars

\* an ERROR line arrived while the transport was down, a later one after the
\* reconnection: one error frame in all, for the later line
C27_Witness ==
    /\ call.op = "line"
    /\ logScopeAgent.stats.errors = 2
    /\ Cardinality(errorFrames(sockets)) = 1
    /\ \A f \in errorFrames(sockets) : sockets[f[1]].sent[f[2]].line = 2

\* C28: sendStats is called for a line exactly when the number of lines
\* processed so far is a multiple of statsInterval, also for a line on which
\* parse fails.
C28_StatsEveryN ==
    [][call'.op = "line" =>
          (parsed'.sendStats <=>
              logScopeAgent'.stats.totalLines % logScopeAgent.config.statsInterval = 0)]_vars

-----------------------------------------------------------------------------
(* C31: calculateUrgency returns the integer min(10, base of the level +
   semantic boosts + keyword boosts), the base being 8 for ERROR, 4 for WARN,
   1 for INFO and 0 for DEBUG and every other level, the boosts +2 database,
   +1 network, +3 auth, +5 security, +2 memory, +1 status code, and +3 for
   critical or fatal, +2 for timeout, +2 for failed or failure in the message
   whatever its case; the result is in 0..10, and at least 8 for an ERROR
   with hasAuth and hasSecurity. *)
boost(flag, points) == IF flag THEN points ELSE 0

C31_Urgency ==
    call.op = "calculateUrgency" =>
        LET lower == toLowerCase(parsed.message)
            base == IF parsed.level = "ERROR" THEN 8
                    ELSE IF parsed.level = "WARN" THEN 4
                    ELSE IF parsed.level = "INFO" THEN 1
                    ELSE 0
            total == base
                     + boost(parsed.semantics.hasDatabase, 2)
                     + boost(parsed.semantics.hasNetwork, 1)
                     + boost(parsed.semantics.hasAuth, 3)
                     + boost(parsed.semantics.hasSecurity, 5)
                     + boost(parsed.semantics.hasMemory, 2)
                     + boost(parsed.semantics.hasStatusCode, 1)
                     + boost(includes(lower, <<"critical">>)
                             \/ includes(lower, <<"fatal">>), 3)
                     + boost(includes(lower, <<"timeout">>), 2)
                     + boost(includes(lower, <<"failed">>)
                             \/ includes(lower, <<"failure">>), 2)
        IN /\ parsed.urgency = min(10, total)
           /\ parsed.urgency \in 0..10
           /\ (parsed.level = "ERROR" /\ parsed.semantics.hasAuth
                   /\ parsed.semantics.hasSecurity) => parsed.urgency >= 8

\* the call of the test suite: ERROR, hasAuth and hasSecurity alone,
\* "CRITICAL: Authentication system failed", with the sum 21 cut to 10
C31_Witness ==
    /\ call.op = "calculateUrgency"
    /\ parsed.level = "ERROR"
    /\ parsed.message = <<"CRITICAL:", "Authentication", "system", "failed">>
    /\ parsed.semantics.hasAuth /\ parsed.semantics.hasSecurity
    /\ ~parsed.semantics.hasDatabase /\ ~parsed.semantics.hasMemory
    /\ ~parsed.semantics.hasNetwork /\ ~parsed.semantics.hasStatusCode
    /\ parsed.urgency = 10

-----------------------------------------------------------------------------
(* C32: from an empty store, after two agents with different serverIds have
   each sent 6 errors whose messages normalize to the same key, the insight
   list holds exactly one insight of type pattern for that key, with
   confidence min(95, 60 + 2 * 12) = 84, and the error list holds two stored
   errors, one per agent. *)
C32_CrossServerPattern ==
    (sentBy(errors, "s1") = 6 /\ sentBy(errors, "s2") = 6) =>
        /\ Len(errors) = 2
        /\ {errors[i].serverId : i \in DOMAIN errors} = {"s1", "s2"}
        /\ \E i \in DOMAIN insights :
              /\ insights[i].type = "pattern"
              /\ insights[i].pattern = normalized[<<"status", "401">>]
              /\ insights[i].confidence = 84
              /\ \A j \in DOMAIN insights : insights[j].type = "pattern" => j = i

-----------------------------------------------------------------------------
(* C33: the first three frames a dashboard receives are, in this order,
   servers with the agent list, errors with the first 50 stored errors and
   insights with the insight list, as they are when it subscribes; no frame
   of a broadcast reaches it before them. *)
framesTo(box, c) == LET mine(f) == f.to = c IN SelectSeq(box, mine)

C33_SnapshotFirst ==
    [][\A c \in Clients :
          readyState[c] = "CLOSED" =>
              IF call'.op = "subscribe" /\ call'.link = c
              THEN /\ Len(framesTo(outbox', c)) = 3
                   /\ framesTo(outbox', c)[1] =
                          [to |-> c, type |-> "servers", data |-> agents]
                   /\ framesTo(outbox', c)[2] =
                          [to |-> c, type |-> "errors",
                           data |-> SubSeq(errors, 1, IF Len(errors) < 50
                                                      THEN Len(errors) ELSE 50)]
                   /\ framesTo(outbox', c)[3] =
                          [to |-> c, type |-> "insights", data |-> insights]
              ELSE framesTo(outbox', c) = << >>]_vars

\* a second dashboard has subscribed to a server with an agent and more than
\* 51 stored errors: its errors frame carries 50 of them
C33_Witness ==
    /\ call.op = "subscribe"
    /\ Len(errors) > 51
    /\ Len(clients) = 2
    /\ Len(outbox) = 3
    /\ Len(outbox[2].data) = 50
    /\ outbox[1].data # << >>

-----------------------------------------------------------------------------
(* C34: after a merge the trend of the merged record is new when R = 0,
   increasing when R > 5, decreasing when R < 2 and stable when 2 <= R <= 5,
   R being the number of other stored errors with the same normalized message
   that were last seen less than an hour ago; a record that was never merged
   has the trend new, and every trend is one of new, stable, increasing,
   decreasing. *)
C34_Trend ==
    /\ \A i \in DOMAIN errors :
          /\ errors[i].trend \in {"new", "stable", "increasing", "decreasing"}
          /\ errors[i].count = 1 => errors[i].trend = "new"
    /\ (call.op = "addError" /\ returned # NoRecord /\ returned[1].count > 1) =>
          LET e == returned[1]
              R == Cardinality({i \in DOMAIN errors :
                                   /\ errors[i] # e
                                   /\ normalized[errors[i].errorMessage]
                                         = normalized[e.errorMessage]
                                   /\ now - errors[i].lastSeen < OneHour})
          IN e.trend = (CASE R = 0 -> "new"
                          [] R > 5 -> "increasing"
                          [] R = 1 -> "decreasing"
                          [] OTHER -> "stable")

\* a merge with six or more other records of the last hour
C34_Witness ==
    /\ call.op = "addError"
    /\ returned # NoRecord
    /\ returned[1].count = 2
    /\ returned[1].trend = "increasing"
    /\ \E i \in DOMAIN errors : errors[i].lastSeen < now

-----------------------------------------------------------------------------
(* C35: every stored error has the category of its own message: the first of
   Database Connectivity, Authentication, Network Issues, File System, Memory
   Issues, Data Processing, Resource Management, Configuration, API Issues,
   Security with a keyword in the lower-cased message, General when there is
   none; also after merges of messages with one normalized message and
   different categories. *)
CategoryOrder ==
    << "Database Connectivity", "Authentication", "Network Issues", "File System",
       "Memory Issues", "Data Processing", "Resource Management", "Configuration",
       "API Issues", "Security" >>

\* TRUE when a keyword of the category is in the lower-cased message
hasKeyword(message, name) ==
    \E c \in DOMAIN Categories :
        /\ Categories[c].name = name
        /\ \E keyword \in Categories[c].keywords :
               includes(toLowerCase(message), keyword)

C35_CategoryOfMessage ==
    \A i \in DOMAIN errors :
        LET m == errors[i].errorMessage
            hits == {k \in DOMAIN CategoryOrder : hasKeyword(m, CategoryOrder[k])}
        IN IF hits = {}
           THEN errors[i].category = "General"
           ELSE \E k \in hits :
                   /\ \A j \in hits : k <= j
                   /\ errors[i].category = CategoryOrder[k]

\* "status 500" (API Issues) has been merged into the record of "status 401"
\* (Authentication)
C35_Witness ==
    /\ call.op = "addError"
    /\ call.arg[1].errorMessage = <<"status", "500">>
    /\ returned # NoRecord
    /\ returned[1].errorMessage = <<"status", "401">>
    /\ returned[1].category = "Authentication"
    /\ returned[1].count > 1

-----------------------------------------------------------------------------
(* C36: the normalized message of every stored error is a key of the pattern
   table, and the servers of that entry include the serverId of the error;
   every entry has count >= number of its servers >= 1; no entry is ever
   removed and no count ever decreases, also when the error list is
   trimmed. *)
C36_Patterns ==
    /\ [](/\ \A i \in DOMAIN errors :
               \E j \in DOMAIN patterns :
                   /\ patterns[j].pattern = normalized[errors[i].errorMessage]
                   /\ errors[i].serverId \in patterns[j].servers
          /\ \A j \in DOMAIN patterns :
               /\ patterns[j].count >= Cardinality(patterns[j].servers)
               /\ Cardinality(patterns[j].servers) >= 1)
    /\ [][\A j \in DOMAIN patterns :
             \E k \in DOMAIN patterns' :
                 /\ patterns'[k].pattern = patterns[j].pattern
                 /\ patterns'[k].count >= patterns[j].count]_vars

\* the error list has been trimmed: an entry counts more records than are
\* stored under its key, from two servers
C36_Witness ==
    /\ call.op = "addError"
    /\ Len(errors) = maxErrors
    /\ \E j \in DOMAIN patterns :
          /\ patterns[j].count >
                Cardinality({i \in DOMAIN errors :
                                normalized[errors[i].errorMessage] = patterns[j].pattern})
          /\ Cardinality(patterns[j].servers) = 2

-----------------------------------------------------------------------------
(* C37: the record of an agent is created by the first register of its
   serverId and kept afterwards; a later register of the same serverId
   revives the record: it is online and bound to the new transport, and it
   keeps its registeredAt and its errorCount, warningCount and
   successCount. *)
C37_RegisterRevives ==
    [][/\ \A i \in DOMAIN agents :
             \E j \in DOMAIN agents' : agents'[j].serverId = agents[i].serverId
       /\ call'.op = "register" =>
             \E j \in DOMAIN agents' :
                 /\ agents'[j].serverId = call'.serverId
                 /\ agents'[j].status = "online"
                 /\ agents'[j].ws = call'.link
                 /\ \A i \in DOMAIN agents :
                       agents[i].serverId = call'.serverId =>
                           /\ agents'[j].registeredAt = agents[i].registeredAt
                           /\ agents'[j].errorCount = agents[i].errorCount
                           /\ agents'[j].warningCount = agents[i].warningCount
                           /\ agents'[j].successCount = agents[i].successCount]_vars

-----------------------------------------------------------------------------
(* C38: when an agent has registered its serverId again on a new transport T2
   and the close of its previous transport T1 is handled afterwards, the
   close does not mark the agent offline: its record stays online and bound
   to T2; and when the close of T1 is handled first, the register on T2
   leaves the record online and bound to T2. *)
C38_LateClose ==
    [][/\ call'.op = "close" =>
            \A i \in DOMAIN agents :
                agents[i].ws # call'.link => agents'[i] = agents[i]
       /\ call'.op = "register" =>
            \A i \in DOMAIN agents' :
                agents'[i].serverId = call'.serverId =>
                    agents'[i].status = "online" /\ agents'[i].ws = call'.link]_vars

\* s1, registered on t1 at first, has registered on t2, and the close of t1
\* has been handled after that: the record is online and bound to t2
C38_Witness ==
    /\ call.op = "close"
    /\ call.link = "t1"
    /\ links["t2"] = "open"
    /\ \E i \in DOMAIN agents :
          /\ agents[i].serverId = "s1"
          /\ agents[i].ws = "t2"
          /\ agents[i].status = "online"

-----------------------------------------------------------------------------
(* C39: while the agent runs with unlimited attempts, every close of its
   link, the close after a failed connection attempt included, is followed by
   a new connection attempt, and when the server ends up accepting
   connections the agent gets an open link on which it has sent register.
   At every moment at most one link is connecting or open, at most one
   reconnect timer is pending, and no timer is pending while a link is
   connecting or open. *)
liveLinks == {k \in DOMAIN sockets : sockets[k].readyState \in {"CONNECTING", "OPEN"}}

unlimited == logScopeAgent.running /\ logScopeAgent.config.maxReconnectAttempts < 0

C39_Reconnects ==
    /\ [](/\ Cardinality(liveLinks) <= 1
          /\ Len(logScopeAgent.timers) <= 1
          /\ ~(logScopeAgent.timers # << >> /\ liveLinks # {}))
    /\ \A n \in 0..(MaxAgentEvents + 1) :
          (unlimited /\ call.op \in {"fail", "close"} /\ Len(sockets) = n)
              ~> (Len(sockets) > n \/ ~logScopeAgent.running)
    /\ (unlimited /\ liveLinks = {})
          ~> (\/ ~logScopeAgent.running
              \/ \E k \in DOMAIN sockets :
                    /\ sockets[k].readyState = "OPEN"
                    /\ sockets[k].sent # << >>
                    /\ sockets[k].sent[1].type = "register")

\* the third link of the agent is open and register has been sent on it,
\* after a connection attempt that failed and a link that the server closed
C39_Witness ==
    /\ Len(sockets) = 3
    /\ sockets[3].readyState = "OPEN"
    /\ sockets[3].sent = <<Frame("register", 0)>>
    /\ sockets[2].readyState = "CLOSED"
    /\ sockets[1].readyState = "CLOSED"
    /\ \E k \in 1..2 : sockets[k].sent = << >>
    /\ \E k \in 1..2 : sockets[k].sent # << >>
    /\ logScopeAgent.running
    /\ logScopeAgent.config.maxReconnectAttempts < 0

-----------------------------------------------------------------------------
(* C40: in every state of the agent stats.errors + stats.warnings +
   stats.success = stats.totalLines: a processed line increments totalLines
   and exactly one of the three counters, errors for ERROR, warnings for
   WARN, success for every other level. *)
C40_StatsSum ==
    logScopeAgent.stats.errors + logScopeAgent.stats.warnings
        + logScopeAgent.stats.success = logScopeAgent.stats.totalLines

=============================================================================
